---------------------------- MODULE Spec2Model ----------------------------
(***************************************************************************)
(* Model of the ABS SCPI driver: the protocol client (ScpiClient) on top   *)
(* of a CommDriver, and the four transport drivers (UDP, TCP, serial,      *)
(* UDP multicast) with their reactor-driven timeout discipline.            *)
(*                                                                         *)
(* The specifications share the variables:                                 *)
(*   Spec        the client: one action per client call shape, each        *)
(*               action being the whole call against the attached driver   *)
(*               (whose Write/ReadLine results are drawn from the codes    *)
(*               the drivers can return);                                  *)
(*   DriverSpec  one driver object at the level of its io_service: the     *)
(*               pending asynchronous operation, the deadline timer, the   *)
(*               queue of ready completion handlers and the run loop.      *)
(*   LiveSpec    DriverSpec with weak fairness of the calling thread's     *)
(*               steps and of the passing of the deadline.                 *)
(*   DiscSpec    the discovery scans (MulticastDiscovery, SerialDiscovery) *)
(*               step by step over a driver they own; DiscLiveSpec adds    *)
(*               weak fairness of the scanning thread's steps.             *)
(*   RaceSpec    two threads sending queries through one client.           *)
(*   StreamSpec  the byte stream of a connected TcpDriver and the lines    *)
(*               its ReadLine returns.                                     *)
(*   UtilSpec    the text utilities (mnemonics, scalar, array and quoted   *)
(*               string parsing) applied to replies.                       *)
(*   WrapSpec    the C wrappers that hand strings and discovery results    *)
(*               to the caller's memory.                                   *)
(*   QuerySpec   one thread calling queries one after the other, with      *)
(*               replies that may arrive late.                             *)
(*   OpenSpec    the C functions that open a connection and attach the     *)
(*               new driver to the client, followed by client calls.       *)
(***************************************************************************)
EXTENDS Integers, Sequences, FiniteSets, TLC

VARIABLES
    kind,       \* concrete type of the driver object
    dev_id_,    \* SerialDriver::Impl::dev_id_
    id_given,   \* the id most recently passed to SetDeviceID (-1 before)
    driver_,    \* ScpiClient::driver_ ("none" = null pointer, "drv" = the driver)
    last,       \* the last client call: function, arguments, result, transport calls
    is_open,    \* socket_.is_open() / port_.is_open()
    pc,         \* position of the calling thread inside the driver ("idle" = outside)
    cur,        \* the driver call in progress, or the last one made
    ec,         \* the call's local boost::system::error_code
    timeout_,   \* timeout_ (UDP, serial) / did_timeout_ (TCP)
    expiry,     \* deadline_.expires_at() relative to now
    wait,       \* number of async_wait operations pending on deadline_
    io,         \* the asynchronous send/receive/connect registered with the reactor
    ready,      \* io_service queue of completion handlers ready to run
    stopped,    \* io_service_.stopped()
    elapsed,    \* the timeout passed to the call in progress has elapsed
    ioOutcome,  \* how the operation of the call really ended
    result,     \* error code returned by the last driver call
    wire,       \* what the last serial Write has put on the line
    hung,       \* the run loop has found the io_service stopped
    ret,        \* the scan's local ret: the code of its last Open or Write
    resp,       \* the scan's local resp: what its last read returned
    scan,       \* the discovery scan made: "none", "multicast" or "serial"
    spc,        \* position of the scan: "idle", "write", "read", "done"
    first_id,   \* SerialDiscovery's first_id (std::uint8_t)
    last_id,    \* SerialDiscovery's last_id (std::uint8_t)
    total,      \* SerialDiscovery's total
    scan_i,     \* SerialDiscovery's loop counter i
    devices,    \* the scan's local list devices
    scan_ret,   \* what the scan returned: its code and its list ("none" before)
    drv,        \* the scan's own driver: whether it exists, is open, and its target id
    made,       \* numbers of Open, SetDeviceID, Write and read calls the scan made
    arrived,    \* the well-formed replies the scan has read, in the order read
    tpc,        \* per thread: its position in SendAndRecv ("idle", "written", "done")
    tcmd,       \* per thread: the command of its call
    tgot,       \* per thread: what its call returned
    replies,    \* the replies on the transport that no ReadLine has returned yet
    written,    \* number of commands written to the transport so far
    taken,      \* number of ReadLine calls that have returned a reply so far
    input_buffer_,  \* TcpDriver::Impl::input_buffer_
    net,        \* what the peer has sent (bytes, or replies) that has not been read yet
    sent,       \* all the bytes the peer has sent
    returned,   \* the lines the ReadLine calls have returned
    ufn,        \* the utility or C wrapper last called ("none" before)
    uarg,       \* its arguments
    uout        \* what it returned

clientVars == <<driver_, last>>
driverVars == <<id_given, is_open, pc, cur, ec, timeout_, expiry, wait, io, ready,
                stopped, elapsed, ioOutcome, result, wire, hung>>
scanVars == <<ret, resp, scan, spc, first_id, last_id, total, scan_i, devices, scan_ret, drv, made,
              arrived>>
raceVars == <<tpc, tcmd, tgot, replies, written, taken>>
streamVars == <<input_buffer_, net, sent, returned>>
utilVars == <<ufn, uarg, uout>>
libVars == <<utilVars>>
restVars == <<scanVars, raceVars, streamVars, libVars>>
vars == <<kind, dev_id_, id_given, driver_, last, is_open, pc, cur, ec, timeout_, expiry,
          wait, io, ready, stopped, elapsed, ioOutcome, result, wire, hung, restVars>>

\* what the steps of one component leave alone
baseVars == <<kind, dev_id_, clientVars, driverVars, raceVars, streamVars, libVars>>
nonRaceVars == <<kind, dev_id_, clientVars, driverVars, scanVars, streamVars, libVars>>
nonLibVars == <<kind, dev_id_, clientVars, driverVars, scanVars, raceVars, streamVars>>

---------------------------------------------------------------------------
(* Program constants *)

kCellCount == 8
kAnalogInputCount == 8
kAnalogOutputCount == 8
kDigitalInputCount == 4
kDigitalOutputCount == 4
kGlobalModelInputCount == 8
kLocalModelInputCount == 8
kModelOutputCount == 36

kWriteTimeoutMs == 250
kReadTimeoutMs == 500

\* the default read timeout ScpiClient.h documents
kDefaultReadTimeoutMs == 150

kMaxDevId == 255

\* the highest id that addresses one device: "0-31 or 32+ to broadcast"
kMaxAddressableId == 31

\* number of fields of a reply to the identity query
kIdnFields == 4
\* std::uint8_t holds 0 .. kUint8Max
kUint8Max == 255

(* Bounds of the model *)

\* how far past a subsystem's channel count the index and count arguments go
MaxOver == 1
\* device ids tried beyond the largest id the serial driver stores
MaxIdOver == 2

Kinds == {"udp", "tcp", "serial", "mcast"}

\* error codes CommDriver::Write and CommDriver::ReadLine can return
WriteErrors == {"SendFailed", "SendTimedOut", "NotConnected"}
ReadErrors == {"ReadFailed", "ReadTimedOut", "NotConnected"}
WriteResults == {"Success"} \cup WriteErrors

\* comma separated tokens of the reply lines the device may send
Toks == {"1", "0.5", "NONE", "AUTO", "CV", "'s'", "x"}

\* the float that is not a number: it compares false with every float
NaN == 1000

\* values offered to the floating point setters
Values == {-11, -7, 3, 7, 11, NaN}

\* operator< of floats
Less(a, b) == a # NaN /\ b # NaN /\ a < b

Min(a, b) == IF a < b THEN a ELSE b
Max(a, b) == IF a > b THEN a ELSE b

\* std::clamp
Clamp(v, lo, hi) == IF v < lo THEN lo ELSE IF hi < v THEN hi ELSE v

\* std::clamp of floats
ClampFloat(v, lo, hi) == IF Less(v, lo) THEN lo ELSE IF Less(hi, v) THEN hi ELSE v

\* n copies of t
Rep(t, n) == [i \in 1..n |-> t]

\* reply lines offered to a query that expects n values: each token repeated
\* once, n times and n + 1 times, and the empty line
ReplyLines(n) == {Rep(t, k) : t \in Toks, k \in {1, n, n + 1}} \cup {<<>>}

\* results ReadLine may give a query that expects n values
ReadResults(n) == {[code |-> "Success", line |-> l] : l \in ReplyLines(n)}
                  \cup {[code |-> e, line |-> <<>>] : e \in ReadErrors}

---------------------------------------------------------------------------
(* The attached driver as the client sees it *)

\* SerialDriver::Impl::SetDeviceID
SetDeviceIDValue(id) == Clamp(id, 0, kMaxDevId)

\* SerialDriver::Impl::IsBroadcast
IsBroadcast == dev_id_ > kMaxDevId

\* CommDriver::IsSendOnly and its overrides
IsSendOnly == CASE kind = "mcast" -> TRUE
                [] kind = "serial" -> IsBroadcast
                [] OTHER -> FALSE

WriteCall(buf, w) ==
    [call |-> "Write", data |-> buf, timeout_ms |-> kWriteTimeoutMs, ret |-> w]
ReadCall(r) ==
    [call |-> "ReadLine", data |-> <<>>, timeout_ms |-> kReadTimeoutMs, ret |-> r.code]

\* result of a client call: error code, reply line, transport calls made
Outcome(code, line, calls) == [ret |-> code, line |-> line, io |-> calls]

\* a return before anything is sent
Early(code) == Outcome(code, <<>>, <<>>)

\* a Send that uses the driver pointer without testing it
Send_NoDriverCheck(buf, w) == Outcome(w, <<>>, <<WriteCall(buf, w)>>)

\* ScpiClient::Send
Send(buf, w) ==
    IF driver_ = "none"
    THEN Early("InvalidDriverHandle")
    ELSE Outcome(w, <<>>, <<WriteCall(buf, w)>>)

\* a SendAndRecv that reads although the write failed
SendAndRecv_ReadAfterFailedWrite(buf, w, r) ==
    IF driver_ = "none"
    THEN Early("InvalidDriverHandle")
    ELSE Outcome(r.code, r.line, <<WriteCall(buf, w), ReadCall(r)>>)

\* ScpiClient::SendAndRecv
SendAndRecv(buf, w, r) ==
    IF driver_ = "none"
    THEN Early("InvalidDriverHandle")
    ELSE IF w # "Success"
         THEN Outcome(w, <<>>, <<WriteCall(buf, w)>>)
         ELSE Outcome(r.code, r.line, <<WriteCall(buf, w), ReadCall(r)>>)


---------------------------------------------------------------------------
(* Initial values of the variables of the discovery scans *)

\* no scan has returned yet
NoResult == [code |-> "none", list |-> <<>>]

\* no driver of a scan exists
NoDriver == [alive |-> FALSE, open |-> FALSE, id |-> 0]

\* no read has been made
NoRead == [code |-> "none", ip |-> "", line |-> <<>>]

ScanIdle ==
    /\ ret = "none" /\ resp = NoRead /\ scan = "none" /\ spc = "idle"
    /\ first_id = 0 /\ last_id = 0 /\ total = 0 /\ scan_i = 0
    /\ devices = <<>> /\ scan_ret = NoResult /\ drv = NoDriver
    /\ made = [open |-> 0, set |-> 0, write |-> 0, read |-> 0]
    /\ arrived = <<>>

\* the two threads of the concurrent use of one client
Threads == {1, 2}

\* a call that has returned nothing yet
NoReply == [code |-> "none", seq |-> 0, to |-> 0, cmd |-> ""]

RaceIdle ==
    /\ tpc = [t \in Threads |-> "idle"]
    /\ tcmd = [t \in Threads |-> ""]
    /\ tgot = [t \in Threads |-> NoReply]
    /\ replies = <<>> /\ written = 0 /\ taken = 0

StreamIdle ==
    /\ input_buffer_ = <<>> /\ net = <<>> /\ sent = <<>> /\ returned = <<>>

\* no function of the utilities has been applied
NoArg == [text |-> <<>>]
NoOut == [code |-> "none"]

UtilIdle == ufn = "none" /\ uarg = NoArg /\ uout = NoOut

LibIdle == UtilIdle

RestIdle == ScanIdle /\ RaceIdle /\ StreamIdle /\ LibIdle

---------------------------------------------------------------------------
(* Reply parsing, at the granularity of comma separated tokens *)

\* util::StrViewToFloat: from_chars accepts a number and ignores what follows
FloatTok(t) == t \in {"1", "0.5"}
\* util::StrViewToBool: exactly one character, '0' or '1'
BoolTok(t) == t = "1"
\* util::StrViewToInt: from_chars accepts leading digits and ignores the rest
IntTok(t) == t \in {"1", "0.5"}
\* scpi::ParseQuotedString of one quoted token
QuotedTok(t) == t = "'s'"

\* the element parsers handed to ParseRespMnemonics
ElemTok(parser, t) ==
    CASE parser = "float" -> FloatTok(t)
      [] parser = "bool" -> BoolTok(t)
      [] parser = "fault" -> t = "NONE"
      [] parser = "range" -> t = "AUTO"
      [] parser = "mode" -> t = "CV"
      [] OTHER -> FALSE

\* SplitRespFloats / SplitRespBools / ParseRespMnemonics into n elements
SplitResp(parser, n, line) ==
    Len(line) = n /\ \A i \in 1..n : ElemTok(parser, line[i])

\* the scalar parsers, which are given the whole line
ParseScalar(parser, line) ==
    CASE parser = "float" -> line # <<>> /\ FloatTok(line[1])
      [] parser = "int" -> line # <<>> /\ IntTok(line[1])
      [] parser = "bool" -> Len(line) = 1 /\ BoolTok(line[1])
      [] parser \in {"fault", "range", "mode"} ->
            Len(line) = 1 /\ ElemTok(parser, line[1])
      [] parser = "string" -> Len(line) = 1 /\ QuotedTok(line[1])
      [] parser = "error" ->
            Len(line) = 2 /\ IntTok(line[1]) /\ QuotedTok(line[2])
      [] parser = "strings2" ->
            Len(line) >= 2 /\ QuotedTok(line[1]) /\ QuotedTok(line[2])
      [] parser = "idn" -> Len(line) = 4
      [] OTHER -> FALSE

\* .and_then(parser) and the Split calls that follow SendAndRecv: the reply is
\* parsed only after a successful SendAndRecv
AndThen(o, ok) ==
    IF o.ret # "Success" THEN o
    ELSE IF ok THEN o
    ELSE Outcome("InvalidResponse", o.line, o.io)

---------------------------------------------------------------------------
(* The client's command tables.  A row names the functions of one family:   *)
(* fn the per-channel function, all the whole-subsystem function ("" when   *)
(* there is none), multi the masked function; count is the subsystem's      *)
(* channel count; head and tail are the message text before and after the   *)
(* channel number.                                                          *)

\* CellFault and CellSenseRange values a caller can pass; "bad" is a value
\* that is no enumerator
CellFaults == {"kNone", "kOpenCircuit", "kShortCircuit", "kPolarity", "bad"}
CellSenseRanges == {"kAuto", "kLow", "kHigh", "bad"}

\* scpi::CellFaultMnemonic
CellFaultMnemonic(fault) ==
    CASE fault = "kNone" -> "NONE"
      [] fault = "kOpenCircuit" -> "OPEN"
      [] fault = "kShortCircuit" -> "SHORT"
      [] fault = "kPolarity" -> "POL"
      [] OTHER -> ""

\* scpi::CellSenseRangeMnemonic
CellSenseRangeMnemonic(range) ==
    CASE range = "kAuto" -> "AUTO"
      [] range = "kLow" -> "LO"
      [] range = "kHigh" -> "HI"
      [] OTHER -> ""

\* setters: type of the value; a float is clamped to lo..hi (lo > hi: sent as
\* given) and formatted with prec decimals; bad is the error of an enum value
\* without mnemonic
Setters == {
    [fn |-> "SetCellVoltage", all |-> "SetAllCellVoltages",
     multi |-> "SetMultipleCellVoltages", count |-> kCellCount,
     head |-> "SOUR", tail |-> ":VOLT", type |-> "float",
     lo |-> 0, hi |-> 5, prec |-> 4, bad |-> ""],
    [fn |-> "SetCellSourcing", all |-> "SetAllCellSourcing",
     multi |-> "SetMultipleCellSourcing", count |-> kCellCount,
     head |-> "SOUR", tail |-> ":CURR:SRC", type |-> "float",
     lo |-> 0, hi |-> 5, prec |-> 4, bad |-> ""],
    [fn |-> "SetCellSinking", all |-> "SetAllCellSinking",
     multi |-> "SetMultipleCellSinking", count |-> kCellCount,
     head |-> "SOUR", tail |-> ":CURR:SNK", type |-> "float",
     lo |-> -5, hi |-> 5, prec |-> 4, bad |-> ""],
    [fn |-> "SetAnalogOutput", all |-> "SetAllAnalogOutputs",
     multi |-> "", count |-> kAnalogOutputCount,
     head |-> "SOUR:AUX:OUT", tail |-> "", type |-> "float",
     lo |-> -10, hi |-> 10, prec |-> 3, bad |-> ""],
    [fn |-> "SetGlobalModelInput", all |-> "SetAllGlobalModelInputs",
     multi |-> "", count |-> kGlobalModelInputCount,
     head |-> "MOD:GLOB", tail |-> "", type |-> "float",
     lo |-> 1, hi |-> 0, prec |-> 0, bad |-> ""],
    [fn |-> "SetLocalModelInput", all |-> "SetAllLocalModelInputs",
     multi |-> "", count |-> kLocalModelInputCount,
     head |-> "MOD:LOC", tail |-> "", type |-> "float",
     lo |-> 1, hi |-> 0, prec |-> 0, bad |-> ""],
    [fn |-> "SetCellFault", all |-> "SetAllCellFaults",
     multi |-> "SetMultipleCellFaults", count |-> kCellCount,
     head |-> "OUTP", tail |-> ":FAUL", type |-> "fault",
     lo |-> 1, hi |-> 0, prec |-> 0, bad |-> "InvalidFaultType"],
    [fn |-> "SetCellSenseRange", all |-> "SetAllCellSenseRanges",
     multi |-> "", count |-> kCellCount,
     head |-> "SENS", tail |-> ":RANG", type |-> "range",
     lo |-> 1, hi |-> 0, prec |-> 0, bad |-> "InvalidSenseRange"],
    [fn |-> "EnableCell", all |-> "",
     multi |-> "EnableCellsMasked", count |-> kCellCount,
     head |-> "OUTP", tail |-> "", type |-> "bool",
     lo |-> 1, hi |-> 0, prec |-> 0, bad |-> ""],
    [fn |-> "SetDigitalOutput", all |-> "SetAllDigitalOutputs",
     multi |-> "SetAllDigitalOutputsMasked", count |-> kDigitalOutputCount,
     head |-> "SOUR:DAUX:OUT", tail |-> "", type |-> "bool",
     lo |-> 1, hi |-> 0, prec |-> 0, bad |-> ""] }

\* values a caller can pass to a setter
ArgValues(f) == CASE f.type = "float" -> Values
                  [] f.type = "fault" -> CellFaults
                  [] f.type = "range" -> CellSenseRanges
                  [] OTHER -> BOOLEAN

\* the text a setter formats its value to: "{:.4f}" / "{:.3f}" / "{}" of the
\* clamped float, "{:d}" of a bool, the mnemonic of an enum ("" when it has none)
Encoded(f, v) ==
    CASE f.type = "float" ->
            [prec |-> f.prec, val |-> IF f.lo <= f.hi THEN ClampFloat(v, f.lo, f.hi) ELSE v]
      [] f.type = "fault" -> CellFaultMnemonic(v)
      [] f.type = "range" -> CellSenseRangeMnemonic(v)
      [] OTHER -> IF v THEN 1 ELSE 0

\* getters: parser of one element; bulk is "buffer" when the whole-subsystem
\* getter also comes in the pointer, span and array-reference shapes, else the
\* name of the getter that returns a bit mask
Getters == {
    [fn |-> "GetCellEnabled", all |-> "GetAllCellsEnabled", bulk |-> "GetAllCellsEnabledMasked",
     count |-> kCellCount, head |-> "OUTP", tail |-> "", parser |-> "bool"],
    [fn |-> "GetCellVoltageTarget", all |-> "GetAllCellVoltageTargets", bulk |-> "buffer",
     count |-> kCellCount, head |-> "SOUR", tail |-> ":VOLT", parser |-> "float"],
    [fn |-> "GetCellSourcingLimit", all |-> "GetAllCellSourcingLimits", bulk |-> "buffer",
     count |-> kCellCount, head |-> "SOUR", tail |-> ":CURR:SRC", parser |-> "float"],
    [fn |-> "GetCellSinkingLimit", all |-> "GetAllCellSinkingLimits", bulk |-> "buffer",
     count |-> kCellCount, head |-> "SOUR", tail |-> ":CURR:SNK", parser |-> "float"],
    [fn |-> "GetCellFault", all |-> "GetAllCellFaults", bulk |-> "buffer",
     count |-> kCellCount, head |-> "OUTP", tail |-> ":FAUL", parser |-> "fault"],
    [fn |-> "GetCellSenseRange", all |-> "GetAllCellSenseRanges", bulk |-> "buffer",
     count |-> kCellCount, head |-> "SENS", tail |-> ":RANG", parser |-> "range"],
    [fn |-> "MeasureCellVoltage", all |-> "MeasureAllCellVoltages", bulk |-> "buffer",
     count |-> kCellCount, head |-> "MEAS", tail |-> ":VOLT", parser |-> "float"],
    [fn |-> "MeasureAverageCellVoltage", all |-> "MeasureAllAverageCellVoltages",
     bulk |-> "buffer",
     count |-> kCellCount, head |-> "MEAS", tail |-> ":VOLT:AVG", parser |-> "float"],
    [fn |-> "MeasureCellCurrent", all |-> "MeasureAllCellCurrents", bulk |-> "buffer",
     count |-> kCellCount, head |-> "MEAS", tail |-> ":CURR", parser |-> "float"],
    [fn |-> "MeasureAverageCellCurrent", all |-> "MeasureAllAverageCellCurrents",
     bulk |-> "buffer",
     count |-> kCellCount, head |-> "MEAS", tail |-> ":CURR:AVG", parser |-> "float"],
    [fn |-> "GetCellOperatingMode", all |-> "GetAllCellOperatingModes", bulk |-> "buffer",
     count |-> kCellCount, head |-> "OUTP", tail |-> ":MODE", parser |-> "mode"],
    [fn |-> "GetAnalogOutput", all |-> "GetAllAnalogOutputs", bulk |-> "buffer",
     count |-> kAnalogOutputCount, head |-> "SOUR:AUX:OUT", tail |-> "",
     parser |-> "float"],
    [fn |-> "GetDigitalOutput", all |-> "GetAllDigitalOutputs",
     bulk |-> "GetAllDigitalOutputsMasked",
     count |-> kDigitalOutputCount, head |-> "SOUR:DAUX:OUT", tail |-> "",
     parser |-> "bool"],
    [fn |-> "MeasureAnalogInput", all |-> "MeasureAllAnalogInputs", bulk |-> "buffer",
     count |-> kAnalogInputCount, head |-> "MEAS:AUX:IN", tail |-> "",
     parser |-> "float"],
    [fn |-> "MeasureDigitalInput", all |-> "MeasureAllDigitalInputs",
     bulk |-> "MeasureAllDigitalInputsMasked",
     count |-> kDigitalInputCount, head |-> "MEAS:DAUX:IN", tail |-> "",
     parser |-> "bool"],
    [fn |-> "GetGlobalModelInput", all |-> "GetAllGlobalModelInputs", bulk |-> "buffer",
     count |-> kGlobalModelInputCount, head |-> "MOD:GLOB", tail |-> "",
     parser |-> "float"],
    [fn |-> "GetLocalModelInput", all |-> "GetAllLocalModelInputs", bulk |-> "buffer",
     count |-> kLocalModelInputCount, head |-> "MOD:LOC", tail |-> "",
     parser |-> "float"],
    [fn |-> "GetModelOutput", all |-> "GetAllModelOutputs", bulk |-> "buffer",
     count |-> kModelOutputCount, head |-> "MOD:OUT", tail |-> "",
     parser |-> "float"] }

\* commands without argument
PlainCommands == {
    [fn |-> "ClearErrors", msg |-> "*CLS"],
    [fn |-> "AssertSoftwareInterlock", msg |-> "SYST:ALARM:RAISE"],
    [fn |-> "ClearRecoverableAlarms", msg |-> "SYST:ALARM:CLEAR"],
    [fn |-> "Reboot", msg |-> "*RST"],
    [fn |-> "LoadModel", msg |-> "MOD:LOAD"],
    [fn |-> "StartModel", msg |-> "MOD:START"],
    [fn |-> "StopModel", msg |-> "MOD:STOP"],
    [fn |-> "UnloadModel", msg |-> "MOD:UNLOAD"] }

\* queries without argument: parser of the reply, number of values it holds
PlainQueries == {
    [fn |-> "GetDeviceInfo", msg |-> "*IDN?", parser |-> "idn", n |-> 4],
    [fn |-> "GetDeviceId", msg |-> "CONF:COMM:SER:ID?", parser |-> "int", n |-> 1],
    [fn |-> "GetIPAddress", msg |-> "CONF:COMM:SOCK:ADDR?", parser |-> "strings2", n |-> 2],
    [fn |-> "GetCalibrationDate", msg |-> "CAL:DATE?", parser |-> "string", n |-> 1],
    [fn |-> "GetErrorCount", msg |-> "SYST:ERR:COUN?", parser |-> "int", n |-> 1],
    [fn |-> "GetNextError", msg |-> "SYST:ERR?", parser |-> "error", n |-> 2],
    [fn |-> "GetAlarms", msg |-> "SYST:ALARM?", parser |-> "int", n |-> 1],
    [fn |-> "GetCellNoiseFilterEnabled", msg |-> "CONF:MEAS:FILT?", parser |-> "bool",
     n |-> 1],
    [fn |-> "GetModelStatus", msg |-> "MOD:STAT?", parser |-> "int", n |-> 1],
    [fn |-> "GetModelInfo", msg |-> "MOD:INFO?", parser |-> "strings2", n |-> 2],
    [fn |-> "GetModelId", msg |-> "MOD:ID?", parser |-> "string", n |-> 1] }

---------------------------------------------------------------------------
(* The client's functions, by family *)

\* a formatted message: form "plain" is text alone, "chan" is HEAD<n>TAIL,
\* "range" is HEADTAIL ...(@1:n) with chans = <<1, n>>, "list" is
\* HEADTAIL ...(@a,b,c), "each" is one :HEAD<i>TAIL arg; per channel;
\* q marks a query
Msg(form, f, q, chans, args) ==
    [form |-> form, head |-> f.head, tail |-> f.tail, q |-> q,
     chans |-> chans, args |-> args]

PlainMsg(text) ==
    [form |-> "plain", head |-> text, tail |-> "", q |-> FALSE,
     chans |-> <<>>, args |-> <<>>]

\* the channel numbers of the set bits of a mask, lowest bit first
RECURSIVE ChanList(_)
ChanList(cells) ==
    IF cells = {} THEN <<>>
    ELSE LET i == CHOOSE x \in cells : \A y \in cells : x <= y
         IN <<i + 1>> \o ChanList(cells \ {i})

\* an enum value that has no mnemonic
NoMnemonic(f, v) == f.bad # "" /\ Encoded(f, v) = ""

\* a per-channel setter that sends without checking the index
SetChannel_Unchecked(f, index, v, w) ==
    IF NoMnemonic(f, v) THEN Early(f.bad)
    ELSE Send(Msg("chan", f, FALSE, <<index + 1>>, <<Encoded(f, v)>>), w)

\* SetCellVoltage(cell, voltage) and the other per-channel setters
SetChannel(f, index, v, w) ==
    IF index >= f.count THEN Early("ChannelIndexOutOfRange")
    ELSE IF NoMnemonic(f, v) THEN Early(f.bad)
    ELSE Send(Msg("chan", f, FALSE, <<index + 1>>, <<Encoded(f, v)>>), w)

\* SetAllCellVoltages(voltage) and the other one-value-for-all setters
SetAllUniform(f, v, w) ==
    IF NoMnemonic(f, v) THEN Early(f.bad)
    ELSE Send(Msg("range", f, FALSE, <<1, f.count>>, <<Encoded(f, v)>>), w)

\* a buffer setter that sends what it has formatted when it meets an enum
\* value without mnemonic
SetAllBuffer_SendsPrefix(f, null, values, count, w) ==
    LET bad == {i \in 1..count : NoMnemonic(f, values[i])}
        n == IF bad = {} THEN count
             ELSE (CHOOSE i \in bad : \A j \in bad : i <= j) - 1
        o == Send(Msg("each", f, FALSE, [i \in 1..n |-> i],
                      [i \in 1..n |-> Encoded(f, values[i])]), w)
    IN  IF (count > 0 /\ null) \/ count > f.count THEN Early("InvalidArgument")
        ELSE IF count = 0 THEN Early("Success")
        ELSE IF bad # {} THEN Outcome(f.bad, <<>>, o.io)
        ELSE o

\* SetAllCellVoltages(voltages, count) and the other buffer setters; null
\* says that the pointer is null, values is what it points to
SetAllBuffer(f, null, values, count, w) ==
    IF (count > 0 /\ null) \/ count > f.count THEN Early("InvalidArgument")
    ELSE IF count = 0 THEN Early("Success")
    ELSE IF \E i \in 1..count : NoMnemonic(f, values[i]) THEN Early(f.bad)
    ELSE Send(Msg("each", f, FALSE, [i \in 1..count |-> i],
                  [i \in 1..count |-> Encoded(f, values[i])]), w)

\* a masked setter that keeps the bits above the channel count
SetMasked_NoDiscard(f, mask, v, w) ==
    IF mask = {} THEN Early("Success")
    ELSE IF f.type # "bool" /\ mask = 0..(f.count - 1)
         THEN SetAllUniform(f, v, w)
    ELSE IF NoMnemonic(f, v) THEN Early(f.bad)
    ELSE Send(Msg("list", f, FALSE, ChanList(mask), <<Encoded(f, v)>>), w)

\* SetMultipleCellVoltages(cells, voltage), EnableCellsMasked(cells, en) and
\* the other masked setters; mask is the set of the bits set
SetMasked(f, mask, v, w) ==
    LET cells == mask \cap (0..(f.count - 1))
    IN  IF cells = {} THEN Early("Success")
        ELSE IF f.type # "bool" /\ cells = 0..(f.count - 1)
             THEN SetAllUniform(f, v, w)
        ELSE IF NoMnemonic(f, v) THEN Early(f.bad)
        ELSE Send(Msg("list", f, FALSE, ChanList(cells), <<Encoded(f, v)>>), w)

\* the row of the digital outputs
DigitalOutputs == CHOOSE f \in Setters : f.fn = "SetDigitalOutput"

\* a SetAllDigitalOutputs that sends the second command although the first
\* one failed
SetAllDigitalOutputs_KeepsGoing(levels, w1, w2) ==
    LET count == Min(Len(levels), kDigitalOutputCount)
        mask_high == {i \in 0..(count - 1) : levels[i + 1]}
        mask_low == {i \in 0..(count - 1) : ~levels[i + 1]}
        hi == SetMasked(DigitalOutputs, mask_high, TRUE, w1)
        lo == SetMasked(DigitalOutputs, mask_low, FALSE, w2)
    IN  IF count = 0 THEN Early("Success")
        ELSE Outcome(IF mask_low # {} THEN lo.ret ELSE hi.ret, <<>>,
                     (IF mask_high # {} THEN hi.io ELSE <<>>)
                     \o (IF mask_low # {} THEN lo.io ELSE <<>>))

\* a SetAllDigitalOutputs that drives the low channels first
SetAllDigitalOutputs_LowFirst(levels, w1, w2) ==
    LET count == Min(Len(levels), kDigitalOutputCount)
        mask_high == {i \in 0..(count - 1) : levels[i + 1]}
        mask_low == {i \in 0..(count - 1) : ~levels[i + 1]}
        lo == SetMasked(DigitalOutputs, mask_low, FALSE, w1)
        hi == SetMasked(DigitalOutputs, mask_high, TRUE, w2)
    IN  IF count = 0 THEN Early("Success")
        ELSE IF mask_low # {} /\ lo.ret # "Success" THEN lo
        ELSE IF mask_high # {}
             THEN Outcome(hi.ret, <<>>,
                          (IF mask_low # {} THEN lo.io ELSE <<>>) \o hi.io)
        ELSE Outcome("Success", <<>>, lo.io)

\* SetAllDigitalOutputs(std::span<const bool> levels); w1 and w2 are the
\* results of the first and the second Write
SetAllDigitalOutputs(levels, w1, w2) ==
    LET count == Min(Len(levels), kDigitalOutputCount)
        mask_high == {i \in 0..(count - 1) : levels[i + 1]}
        mask_low == {i \in 0..(count - 1) : ~levels[i + 1]}
        hi == SetMasked(DigitalOutputs, mask_high, TRUE, w1)
        lo == SetMasked(DigitalOutputs, mask_low, FALSE, w2)
    IN  IF count = 0 THEN Early("Success")
        ELSE IF mask_high # {} /\ hi.ret # "Success" THEN hi
        ELSE IF mask_low # {}
             THEN Outcome(lo.ret, <<>>,
                          (IF mask_high # {} THEN hi.io ELSE <<>>) \o lo.io)
        ELSE Outcome("Success", <<>>, hi.io)

\* GetCellVoltageTarget(cell) and the other per-channel getters
GetChannel(f, index, w, r) ==
    IF index >= f.count THEN Early("ChannelIndexOutOfRange")
    ELSE AndThen(SendAndRecv(Msg("chan", f, TRUE, <<index + 1>>, <<>>), w, r),
                 ParseScalar(f.parser, r.line))

\* GetAllCellVoltageTargets() and the other getters returning an array; the
\* getters returning a bit mask call them and pack the array
GetAll(f, w, r) ==
    AndThen(SendAndRecv(Msg("range", f, TRUE, <<1, f.count>>, <<>>), w, r),
            SplitResp(f.parser, f.count, r.line))

\* channels a buffer getter asks the device for
Requested(f, count) == IF f.fn = "GetModelOutput" THEN kModelOutputCount ELSE count

\* GetAllCellVoltageTargets(voltages, count) and the other buffer getters
GetAllBuffer(f, null, count, w, r) ==
    IF (null /\ count > 0) \/ count > f.count THEN Early("InvalidArgument")
    ELSE IF count = 0 THEN Early("Success")
    ELSE AndThen(SendAndRecv(Msg("range", f, TRUE, <<1, Requested(f, count)>>, <<>>),
                             w, r),
                 SplitResp(f.parser, count, r.line))

\* Reboot() and the other commands without argument
PlainCommand(c, w) == Send(PlainMsg(c.msg), w)

\* GetDeviceId() and the other queries without argument
PlainQuery(q, w, r) ==
    AndThen(SendAndRecv(PlainMsg(q.msg), w, r), ParseScalar(q.parser, r.line))

\* EnableCellNoiseFilter(en)
EnableCellNoiseFilter(en, w) ==
    Send([PlainMsg("CONF:MEAS:FILT") EXCEPT !.args = <<IF en THEN 1 ELSE 0>>], w)

\* address strings a caller can pass: length and whether a '"' occurs
Addresses == {[size |-> 11, quote |-> FALSE], [size |-> 15, quote |-> TRUE],
              [size |-> 16, quote |-> FALSE]}

\* SetIPAddress(ip, netmask)
SetIPAddress(ip, netmask, w) ==
    IF ip.size > 15 \/ netmask.size > 15 THEN Early("InvalidIPAddress")
    ELSE IF ip.quote \/ netmask.quote THEN Early("InvalidIPAddress")
    ELSE Send([PlainMsg("CONF:COMM:SOCK:ADDR") EXCEPT !.args = <<ip, netmask>>], w)

---------------------------------------------------------------------------
(* The client specification: a call runs to its return in one step and     *)
(* leaves its record in last until the caller has taken the result.        *)

NoCall == [fn |-> "none", shape |-> "", chans |-> 0, arg |-> <<>>,
           ret |-> "", line |-> <<>>, io |-> <<>>]

\* record of a call: function, call shape, channel count of its subsystem,
\* arguments, and what the call returned and did
Called(fn, shape, chans, arg, o) ==
    [fn |-> fn, shape |-> shape, chans |-> chans, arg |-> arg,
     ret |-> o.ret, line |-> o.line, io |-> o.io]

\* the driver object as constructed, not in any call
DriverIdle ==
    /\ id_given = -1 /\ is_open = FALSE /\ pc = "idle" /\ cur = "none" /\ ec = "success"
    /\ timeout_ = FALSE /\ expiry = "inf" /\ wait = 0 /\ io = "none"
    /\ ready = <<>> /\ stopped = FALSE /\ elapsed = FALSE
    /\ ioOutcome = "none" /\ result = "none" /\ wire = <<>> /\ hung = FALSE

\* ScpiClient::ScpiClient(driver): the pointer given may be null
Init ==
    /\ kind \in Kinds
    /\ driver_ \in {"none", "drv"}
    /\ dev_id_ = 0
    /\ last = NoCall
    /\ DriverIdle
    /\ RestIdle

\* channel indices, buffer sizes and masks offered to the functions of a row
Indices(f) == {0, f.count - 1} \cup (f.count..(f.count + MaxOver - 1))
Counts(f) == {0, 1, f.count} \cup ((f.count + 1)..(f.count + MaxOver))
Masks(f) == {s \cup t : s \in SUBSET {0, 1, f.count - 1},
                        t \in SUBSET (f.count..(f.count + MaxOver - 1))}
            \cup {0..(f.count - 1), 0..(f.count + MaxOver - 1)}

\* buffers of n values for a setter: all equal, or the last one different
Buffers(f, n) == {[i \in 1..n |-> IF i = n THEN v2 ELSE v1] :
                    v1 \in ArgValues(f), v2 \in ArgValues(f)}

\* the shapes a buffer function is called in: pointer and count (the pointer
\* may be null), span (any size), reference to an array of the channel count
Shapes == {"pointer", "span", "array"}
ShapeCounts(f, shape) == IF shape = "array" THEN {f.count} ELSE Counts(f)
ShapeNulls(shape) == IF shape = "pointer" THEN BOOLEAN ELSE {FALSE}

CallPlainCommand ==
    /\ last = NoCall
    /\ \E c \in PlainCommands, w \in WriteResults :
         last' = Called(c.fn, "plain", 0, <<>>, PlainCommand(c, w))
    /\ UNCHANGED <<kind, dev_id_, driver_, driverVars, restVars>>

CallPlainQuery ==
    /\ last = NoCall
    /\ \E q \in PlainQueries, w \in WriteResults :
         \E r \in ReadResults(q.n) :
           last' = Called(q.fn, "query", 0, <<>>, PlainQuery(q, w, r))
    /\ UNCHANGED <<kind, dev_id_, driver_, driverVars, restVars>>

CallEnableCellNoiseFilter ==
    /\ last = NoCall
    /\ \E en \in BOOLEAN, w \in WriteResults :
         last' = Called("EnableCellNoiseFilter", "plain", 0, [value |-> en],
                        EnableCellNoiseFilter(en, w))
    /\ UNCHANGED <<kind, dev_id_, driver_, driverVars, restVars>>

CallSetIPAddress ==
    /\ last = NoCall
    /\ \E ip \in Addresses, netmask \in Addresses, w \in WriteResults :
         last' = Called("SetIPAddress", "address", 0, [ip |-> ip, netmask |-> netmask],
                        SetIPAddress(ip, netmask, w))
    /\ UNCHANGED <<kind, dev_id_, driver_, driverVars, restVars>>

CallSetChannel ==
    /\ last = NoCall
    /\ \E f \in Setters, w \in WriteResults :
         \E index \in Indices(f), v \in ArgValues(f) :
           last' = Called(f.fn, "channel", f.count, [index |-> index, value |-> v],
                          SetChannel(f, index, v, w))
    /\ UNCHANGED <<kind, dev_id_, driver_, driverVars, restVars>>

CallSetAllUniform ==
    /\ last = NoCall
    /\ \E f \in Setters, w \in WriteResults :
         /\ f.all # ""
         /\ \E v \in ArgValues(f) :
              last' = Called(f.all, "uniform", f.count, [value |-> v],
                             SetAllUniform(f, v, w))
    /\ UNCHANGED <<kind, dev_id_, driver_, driverVars, restVars>>

CallSetAllBuffer ==
    /\ last = NoCall
    /\ \E f \in Setters, shape \in Shapes, w \in WriteResults :
         /\ f.type # "bool"
         /\ \E count \in ShapeCounts(f, shape), null \in ShapeNulls(shape) :
              \E values \in Buffers(f, count) :
                last' = Called(f.all, shape, f.count,
                               [count |-> count, null |-> null, values |-> values],
                               SetAllBuffer(f, null, values, count, w))
    /\ UNCHANGED <<kind, dev_id_, driver_, driverVars, restVars>>

CallSetMasked ==
    /\ last = NoCall
    /\ \E f \in Setters, w \in WriteResults :
         /\ f.multi # ""
         /\ \E mask \in Masks(f), v \in ArgValues(f) :
              last' = Called(f.multi, "masked", f.count, [mask |-> mask, value |-> v],
                             SetMasked(f, mask, v, w))
    /\ UNCHANGED <<kind, dev_id_, driver_, driverVars, restVars>>

CallSetAllDigitalOutputs ==
    /\ last = NoCall
    /\ \E shape \in {"span", "array"}, w1 \in WriteResults, w2 \in WriteResults :
         \E count \in ShapeCounts(DigitalOutputs, shape) :
           \E levels \in [1..count -> BOOLEAN] :
             last' = Called("SetAllDigitalOutputs", shape, kDigitalOutputCount,
                            [count |-> count, null |-> FALSE, values |-> levels],
                            SetAllDigitalOutputs(levels, w1, w2))
    /\ UNCHANGED <<kind, dev_id_, driver_, driverVars, restVars>>

CallGetChannel ==
    /\ last = NoCall
    /\ \E f \in Getters, w \in WriteResults, r \in ReadResults(1) :
         \E index \in Indices(f) :
           last' = Called(f.fn, "channel", f.count, [index |-> index],
                          GetChannel(f, index, w, r))
    /\ UNCHANGED <<kind, dev_id_, driver_, driverVars, restVars>>

CallGetAll ==
    /\ last = NoCall
    /\ \E f \in Getters, w \in WriteResults :
         \E fn \in {f.all} \cup ({f.bulk} \ {"buffer"}), r \in ReadResults(f.count) :
           last' = Called(fn, "query", f.count, <<>>, GetAll(f, w, r))
    /\ UNCHANGED <<kind, dev_id_, driver_, driverVars, restVars>>

CallGetAllBuffer ==
    /\ last = NoCall
    /\ \E f \in Getters, shape \in Shapes, w \in WriteResults :
         /\ f.bulk = "buffer"
         /\ \E count \in ShapeCounts(f, shape), null \in ShapeNulls(shape) :
              \E r \in ReadResults(count) \cup ReadResults(Requested(f, count)) :
                last' = Called(f.all, shape, f.count, [count |-> count, null |-> null],
                               GetAllBuffer(f, null, count, w, r))
    /\ UNCHANGED <<kind, dev_id_, driver_, driverVars, restVars>>

\* the caller takes the result of the call
TakeResult ==
    /\ last # NoCall
    /\ last' = NoCall
    /\ UNCHANGED <<kind, dev_id_, driver_, driverVars, restVars>>

Next ==
    \/ CallPlainCommand
    \/ CallPlainQuery
    \/ CallEnableCellNoiseFilter
    \/ CallSetIPAddress
    \/ CallSetChannel
    \/ CallSetAllUniform
    \/ CallSetAllBuffer
    \/ CallSetMasked
    \/ CallSetAllDigitalOutputs
    \/ CallGetChannel
    \/ CallGetAll
    \/ CallGetAllBuffer
    \/ TakeResult

Spec == Init /\ [][Next]_vars

---------------------------------------------------------------------------
(* Properties of the client *)

\* a client call has been made and its record is in last
InCall == last # NoCall

\* the call went through SendAndRecv when it passed its argument checks
QueryShaped == last.fn \in ({q.fn : q \in PlainQueries}
                           \cup {f.fn : f \in Getters} \cup {f.all : f \in Getters}
                           \cup ({f.bulk : f \in Getters} \ {"buffer"}))

\* the transport calls of the recorded call, by name
Reads == {i \in 1..Len(last.io) : last.io[i].call = "ReadLine"}
Writes == {i \in 1..Len(last.io) : last.io[i].call = "Write"}

\* error codes of rejected arguments
ArgumentErrors == {"ChannelIndexOutOfRange", "InvalidArgument", "InvalidFaultType",
                   "InvalidSenseRange", "InvalidIPAddress"}

\* the recorded call names no channel at all: a buffer of count 0 or a mask
\* without a bit of the subsystem
NothingToSend ==
    \/ last.shape \in Shapes /\ last.arg.count = 0
    \/ last.shape = "masked" /\ last.arg.mask \cap (0..(last.chans - 1)) = {}

\* the recorded call is a buffer call whose count exceeds the channel count or
\* whose buffer is null with a nonzero count
BadBuffer ==
    /\ last.shape \in Shapes
    /\ \/ last.arg.count > last.chans
       \/ last.arg.null /\ last.arg.count > 0

\* C1 as stated: with no driver attached every call, whatever its arguments,
\* returns InvalidDriverHandle and invokes neither Write nor ReadLine.
C1_AsStated ==
    (InCall /\ driver_ = "none") =>
        (last.ret = "InvalidDriverHandle" /\ last.io = <<>>)

\* C1: with no driver attached no call invokes Write or ReadLine, and the call
\* returns InvalidDriverHandle unless it returns before it would send: with an
\* argument error, or with Success when its arguments name nothing to send.
C1_NoDriver ==
    (InCall /\ driver_ = "none") =>
        /\ last.io = <<>>
        /\ \/ last.ret = "InvalidDriverHandle"
           \/ last.ret \in ArgumentErrors
           \/ last.ret = "Success" /\ NothingToSend

C1_Witness ==
    /\ driver_ = "none"
    /\ last.fn = "EnableCellsMasked"
    /\ last.arg.mask = {0, 1}
    /\ last.ret = "InvalidDriverHandle"

\* C2 as stated: a query-shaped call that reaches the transport of a send-only
\* driver returns ReceiveNotAllowed and never invokes ReadLine.
C2_AsStated ==
    (InCall /\ driver_ = "drv" /\ IsSendOnly /\ QueryShaped
            /\ last.ret \notin ArgumentErrors /\ ~NothingToSend) =>
        (last.ret = "ReceiveNotAllowed" /\ Reads = {})

\* C3: in a query call on a client with a driver, every ReadLine directly
\* follows a Write that returned Success, and when the Write fails the call
\* makes no ReadLine and returns the Write's error.
C3_WriteThenRead ==
    (InCall /\ driver_ = "drv" /\ QueryShaped) =>
        /\ \A i \in Reads :
              i > 1 /\ last.io[i - 1].call = "Write" /\ last.io[i - 1].ret = "Success"
        /\ \A i \in Writes :
              last.io[i].ret # "Success" => (Reads = {} /\ last.ret = last.io[i].ret)

C3_Witness ==
    /\ driver_ = "drv" /\ QueryShaped
    /\ Len(last.io) = 1
    /\ last.io[1].ret = "SendTimedOut"
    /\ last.ret = "SendTimedOut"

\* C4: a per-channel getter or setter whose index is not below the channel
\* count of its subsystem returns ChannelIndexOutOfRange and invokes no Write.
C4_IndexChecked ==
    (InCall /\ last.shape = "channel" /\ last.arg.index >= last.chans) =>
        (last.ret = "ChannelIndexOutOfRange" /\ last.io = <<>>)

C4_Witness ==
    /\ driver_ = "drv"
    /\ last.fn = "SetCellSinking"
    /\ last.arg.index = kCellCount
    /\ last.ret = "ChannelIndexOutOfRange"

\* C5 as stated: a get-all or set-all call, in the pointer, span or array
\* shape, whose count exceeds the channel count or whose buffer is null with a
\* nonzero count returns InvalidArgument and invokes no Write (checked on a
\* client with a driver, where a Write would reach the transport).
C5_AsStated ==
    (InCall /\ driver_ = "drv" /\ BadBuffer) =>
        (last.ret = "InvalidArgument" /\ last.io = <<>>)


\* C18: no call retries: only the last transport call of a call can have
\* failed, its error is then the result of the call, no message is written
\* twice, and every ReadLine follows a Write of its own.
C18_NoRetry ==
    InCall =>
        /\ \A j \in 1..(Len(last.io) - 1) : last.io[j].ret = "Success"
        /\ (last.io # <<>> /\ last.io[Len(last.io)].ret # "Success") =>
              last.ret = last.io[Len(last.io)].ret
        /\ \A j \in Writes : \A k \in Writes :
              j # k => last.io[j].data # last.io[k].data
        /\ \A j \in Reads : j > 1 /\ last.io[j - 1].call = "Write"

C18_Witness ==
    /\ driver_ = "drv"
    /\ last.fn = "SetAllDigitalOutputs"
    /\ "count" \in DOMAIN last.arg /\ last.arg.count = kDigitalOutputCount
    /\ Len(last.io) = 1
    /\ last.io[1].ret = "SendFailed"
    /\ last.ret = "SendFailed"

\* C19 as stated: on a freshly constructed client the ReadLine of every query
\* is called with a timeout of 150 ms.
C19_AsStated ==
    InCall => \A j \in Reads : last.io[j].timeout_ms = kDefaultReadTimeoutMs

---------------------------------------------------------------------------
(* Channel lists and value ranges of the messages the setters send *)

\* the channels a masked call selects, as 1-based channel numbers
Selected == {c + 1 : c \in last.arg.mask \cap (0..(last.chans - 1))}

\* the message of a masked call that sent one
MaskedSent == InCall /\ last.shape = "masked" /\ last.io # <<>>

\* C21 as stated: a masked call that sends a message encodes the selected
\* channels as the compact range (@1:N) when all N channels of the subsystem
\* are selected, and else as the list of their 1-based numbers in ascending
\* order.
C21_AsStated ==
    MaskedSent =>
        LET m == last.io[1].data
        IN  IF Selected = 1..last.chans
            THEN m.form = "range" /\ m.chans = <<1, last.chans>>
            ELSE /\ m.form = "list"
                 /\ {m.chans[j] : j \in 1..Len(m.chans)} = Selected
                 /\ \A j \in 1..(Len(m.chans) - 1) : m.chans[j] < m.chans[j + 1]

\* the same for the masked setters that test for the full mask (cell
\* voltages, limits and faults); the masked setters of booleans
\* (EnableCellsMasked, SetAllDigitalOutputsMasked) always send the list
C21_ListOrRange ==
    MaskedSent =>
        LET m == last.io[1].data
            compact == Selected = 1..last.chans
                       /\ last.fn \notin {"EnableCellsMasked", "SetAllDigitalOutputsMasked"}
        IN  IF compact
            THEN m.form = "range" /\ m.chans = <<1, last.chans>>
            ELSE /\ m.form = "list"
                 /\ {m.chans[j] : j \in 1..Len(m.chans)} = Selected
                 /\ \A j \in 1..(Len(m.chans) - 1) : m.chans[j] < m.chans[j + 1]

\* the setters of cell voltages, sourcing limits, sinking limits and analog
\* outputs, and the range of each
RangedSetters == {f \in Setters : f.fn \in {"SetCellVoltage", "SetCellSourcing",
                                            "SetCellSinking", "SetAnalogOutput"}}
ValidRange(f) ==
    CASE f.fn = "SetCellVoltage" -> [lo |-> 0, hi |-> 5]
      [] f.fn = "SetCellSourcing" -> [lo |-> 0, hi |-> 5]
      [] f.fn = "SetCellSinking" -> [lo |-> -5, hi |-> 5]
      [] f.fn = "SetAnalogOutput" -> [lo |-> -10, hi |-> 10]

\* a number within the range
Within(v, r) == v # NaN /\ r.lo <= v /\ v <= r.hi

\* the values of the messages the last call sent
SentValues == UNION {{last.io[j].data.args[k] : k \in 1..Len(last.io[j].data.args)} :
                     j \in Writes}

\* the last call is a call of a setter of f, in any shape
SetterOf(f) == InCall /\ last.fn \in ({f.fn, f.all, f.multi} \ {""})

\* C22 as stated: every value a setter of cell voltages, sourcing limits,
\* sinking limits or analog outputs transmits, whatever the shape of the
\* call, lies within the range of that setter.
C22_AsStated ==
    \A f \in RangedSetters :
        SetterOf(f) => \A a \in SentValues : Within(a.val, ValidRange(f))

\* the same for the values that are numbers: a value that is not a number is
\* transmitted as it is
C22_NumbersClamped ==
    \A f \in RangedSetters :
        SetterOf(f) => \A a \in SentValues : a.val = NaN \/ Within(a.val, ValidRange(f))

---------------------------------------------------------------------------
(* Claims about the bulk getters and setters *)

\* the getters that fill a caller's buffer of count elements
BufferGetters == {f \in Getters : f.bulk = "buffer"}

\* the last call is a buffer getter with a buffer and a valid count, and it
\* has sent its query
BufferQuery ==
    /\ InCall /\ last.shape \in Shapes
    /\ \E f \in BufferGetters : f.all = last.fn
    /\ last.arg.count \in 1..last.chans /\ ~last.arg.null
    /\ last.io # <<>>

\* the device has answered the query of the last call with one value of the
\* getter's kind per channel requested
OnePerRequested ==
    LET f == CHOOSE g \in BufferGetters : g.all = last.fn
    IN  /\ Len(last.io) = 2 /\ last.io[2].ret = "Success"
        /\ SplitResp(f.parser, last.io[1].data.chans[2], last.line)

\* C32: a bulk getter called with a valid count n requests exactly the
\* channels 1..n, so that it returns success when the device answers with one
\* value per channel requested; for model outputs as for cells and analog
\* channels.
C32_AsStated ==
    BufferQuery =>
        /\ last.io[1].data.form = "range"
        /\ last.io[1].data.chans = <<1, last.arg.count>>
        /\ OnePerRequested => last.ret = "Success"

\* the same for every buffer getter but GetAllModelOutputs, which requests
\* all its channels whatever the count and succeeds on a reply of count values
C32_ButModelOutputs ==
    BufferQuery =>
        /\ last.io[1].data.form = "range"
        /\ last.io[1].data.chans =
              <<1, IF last.fn = "GetAllModelOutputs" THEN kModelOutputCount
                   ELSE last.arg.count>>
        /\ (last.fn # "GetAllModelOutputs" /\ OnePerRequested) => last.ret = "Success"
        /\ last.ret = "Success" => Len(last.line) = last.arg.count

\* the setters that take one value per channel from a caller's buffer
ArraySetters == {f \in Setters : f.type # "bool"}

\* the last call is such a setter with a buffer and a valid count of at
\* least 1
ArraySet ==
    /\ InCall /\ last.shape \in Shapes
    /\ \E f \in ArraySetters : f.all = last.fn
    /\ last.arg.count \in 1..last.chans /\ ~last.arg.null

ChannelsOf(m) ==
    IF m.form = "range" THEN m.chans[1]..m.chans[2]
    ELSE {m.chans[j] : j \in 1..Len(m.chans)}

\* the last call is a bulk setter given a buffer of count 0
EmptyBuffer ==
    /\ InCall /\ last.shape \in Shapes
    /\ \E f \in Setters : f.all = last.fn
    /\ last.arg.count = 0

\* C37: a masked operation whose mask selects no channel once the bits above
\* the channel count are discarded, and a bulk setter called with count 0,
\* return Success and call neither Write nor ReadLine; the bits above the
\* channel count never add a channel to a channel list that is sent.
C37_NothingToSend ==
    /\ (InCall /\ last.shape = "masked" /\ Selected = {}) =>
           (last.ret = "Success" /\ last.io = <<>>)
    /\ EmptyBuffer => (last.ret = "Success" /\ last.io = <<>>)
    /\ MaskedSent =>
           /\ Len(last.io) = 1
           /\ ChannelsOf(last.io[1].data) = Selected

\* a masked setter given only the bit above the last channel, with a driver
\* attached
C37_Witness ==
    /\ driver_ = "drv"
    /\ last.shape = "masked" /\ last.fn = "SetMultipleCellVoltages"
    /\ last.arg.mask = {kCellCount}
    /\ last.ret = "Success" /\ last.io = <<>>

\* the message that drives the digital outputs of the set chans to level
DigitalWrite(chans, level) ==
    Msg("list", DigitalOutputs, FALSE, ChanList({c - 1 : c \in chans}),
        <<IF level THEN 1 ELSE 0>>)

\* C38: SetAllDigitalOutputs(levels) makes at most two masked writes, the
\* channels to drive high first and the channels to drive low second, each
\* channel supplied being in exactly one of them, with its level; when the
\* first write fails the second is not made and the error is returned.
C38_HighThenLow ==
    (InCall /\ last.fn = "SetAllDigitalOutputs" /\ last.shape \in Shapes
        /\ driver_ = "drv") =>
        LET n == Min(last.arg.count, kDigitalOutputCount)
            high == {c \in 1..n : last.arg.values[c]}
            low == {c \in 1..n : ~last.arg.values[c]}
            msgs == (IF high # {} THEN <<DigitalWrite(high, TRUE)>> ELSE <<>>)
                    \o (IF low # {} THEN <<DigitalWrite(low, FALSE)>> ELSE <<>>)
        IN  /\ Len(last.io) <= Len(msgs)
            /\ \A j \in 1..Len(last.io) :
                  last.io[j].call = "Write" /\ last.io[j].data = msgs[j]
            /\ \A j \in 1..(Len(last.io) - 1) : last.io[j].ret = "Success"
            /\ Len(last.io) < Len(msgs) =>
                  /\ last.io # <<>>
                  /\ last.io[Len(last.io)].ret # "Success"
            /\ last.ret = IF last.io = <<>> THEN "Success"
                          ELSE last.io[Len(last.io)].ret

\* four levels, two high and two low: both writes made, the high channels
\* first, and the error of the second write returned
C38_Witness ==
    /\ driver_ = "drv" /\ last.fn = "SetAllDigitalOutputs" /\ last.shape = "span"
    /\ last.arg.count = kDigitalOutputCount
    /\ last.arg.values = <<TRUE, FALSE, FALSE, TRUE>>
    /\ Len(last.io) = 2
    /\ last.io[1].data.chans = <<1, 4>> /\ last.io[1].data.args = <<1>>
    /\ last.io[2].data.chans = <<2, 3>> /\ last.io[2].data.args = <<0>>
    /\ last.ret = "SendTimedOut"

---------------------------------------------------------------------------
(* A driver object at the level of its io_service.                         *)
(*                                                                         *)
(* ready is the io_service's queue of completion handlers, each a pair of  *)
(* the operation kind ("io" for the send/receive/connect of the call,      *)
(* "timer" for a wait on deadline_) and the error code the handler gets.   *)
(* An operation's handler is queued when the reactor finds it complete,    *)
(* when the operation completes at once as it is started, or when the      *)
(* operation is cancelled; run_one runs the handler at the head.           *)

\* drivers with a persistent deadline actor (CheckDeadline re-arms itself)
Actors == {"udp", "serial"}

\* the calls of each driver that drive the reactor
Ops(k) == CASE k = "udp" -> {"Write", "ReadLine"}
            [] k = "tcp" -> {"Connect", "Write", "ReadLine"}
            [] k = "serial" -> {"ReadLine"}
            [] OTHER -> {"Write", "ReadLine", "ReadLineFrom"}

TimedOutCode(op) == CASE op = "Write" -> "SendTimedOut"
                      [] op = "Connect" -> "ConnectionTimedOut"
                      [] OTHER -> "ReadTimedOut"

FailedCode(op) == CASE op = "Write" -> "SendFailed"
                    [] op = "Connect" -> "ConnectionFailed"
                    [] OTHER -> "ReadFailed"

\* ids a caller passes to SetDeviceID
Ids == {0, kMaxAddressableId, kMaxAddressableId + 1} \cup (kMaxDevId..(kMaxDevId + MaxIdOver))

\* outstanding work of the io_service: pending operations and queued handlers
Work(q, w, i) == Len(q) + w + (IF i = "pending" THEN 1 ELSE 0)

\* the constructors: the UDP and serial drivers set the deadline to infinity
\* and start the deadline actor, whose wait stays pending
DriverInit ==
    /\ kind \in Kinds
    /\ dev_id_ = 0 /\ id_given = -1
    /\ driver_ = "none" /\ last = NoCall
    /\ RestIdle
    /\ is_open = FALSE /\ pc = "idle" /\ cur = "none" /\ ec = "success"
    /\ timeout_ = FALSE /\ expiry = "inf"
    /\ wait = (IF kind \in Actors THEN 1 ELSE 0)
    /\ io = "none" /\ ready = <<>> /\ stopped = FALSE /\ elapsed = FALSE
    /\ ioOutcome = "none" /\ result = "none" /\ wire = <<>> /\ hung = FALSE

\* points at which Open can fail
OpenFailures == {"address", "open", "option", "bind", "none"}

\* UdpDriver::Impl::Open, UdpMcastDriver::Impl::Open, SerialDriver::Impl::Open:
\* the code returned and whether the socket or port is open afterwards
OpenResult(k, fail) ==
    CASE is_open -> [ret |-> "AlreadyConnected", open |-> TRUE]
      [] k = "serial" /\ fail = "open" ->
            [ret |-> "OpeningSerialPortFailed", open |-> FALSE]
      [] k = "serial" /\ fail = "option" ->
            [ret |-> "FailedToConfigurePort", open |-> TRUE]
      [] k = "serial" -> [ret |-> "Success", open |-> TRUE]
      [] fail = "address" -> [ret |-> "InvalidIPAddress", open |-> FALSE]
      [] fail \in {"open", "option"} -> [ret |-> "SocketError", open |-> FALSE]
      [] fail = "bind" ->
            [ret |-> IF k = "udp" THEN "FailedToBindSocket" ELSE "FailedToJoinGroup",
             open |-> FALSE]
      [] OTHER -> [ret |-> "Success", open |-> TRUE]

Open ==
    /\ pc = "idle" /\ kind # "tcp"
    /\ \E fail \in OpenFailures :
         /\ result' = OpenResult(kind, fail).ret
         /\ is_open' = OpenResult(kind, fail).open
    /\ cur' = "Open"
    /\ UNCHANGED <<kind, dev_id_, id_given, clientVars, restVars, pc, ec, timeout_, expiry,
                   wait, io, ready, stopped, elapsed, ioOutcome, wire, hung>>

\* Close of each driver; the TCP driver also cancels the wait on its deadline
Close ==
    /\ pc = "idle"
    /\ is_open' = FALSE
    /\ IF kind = "tcp" /\ wait > 0
       THEN wait' = 0 /\ ready' = Append(ready, <<"timer", "aborted">>)
       ELSE UNCHANGED <<wait, ready>>
    /\ cur' = "Close" /\ result' = "none"
    /\ UNCHANGED <<kind, dev_id_, id_given, clientVars, restVars, pc, ec, timeout_, expiry,
                   io, stopped, elapsed, ioOutcome, wire, hung>>

\* CommDriver::SetDeviceID (a no-op) and SerialDriver::SetDeviceID
SetDeviceID ==
    /\ pc = "idle"
    /\ \E id \in Ids :
         /\ id_given' = id
         /\ dev_id_' = IF kind = "serial" THEN SetDeviceIDValue(id) ELSE dev_id_
    /\ UNCHANGED <<kind, clientVars, restVars, is_open, pc, cur, ec, timeout_, expiry, wait, io,
                   ready, stopped, elapsed, ioOutcome, result, wire, hung>>

\* deadline_.expires_from_now(timeout): a wait still pending is cancelled, its
\* handler is queued with operation_aborted
Rearmed(q) == IF wait > 0 THEN Append(q, <<"timer", "aborted">>) ELSE q

\* starting the asynchronous operation: it stays pending on the reactor
\* (now = "pending"), or it completes at once and its handler is queued
Started(q, now) == IF now = "pending" THEN q ELSE Append(q, <<"io", now>>)

\* the call returns at once: the socket or port is not open
NotConnected(op) ==
    /\ ~is_open
    /\ cur' = op /\ result' = "NotConnected"
    /\ UNCHANGED <<is_open, pc, ec, timeout_, expiry, wait, io, ready, stopped,
                   elapsed, ioOutcome, wire, hung>>

\* UdpDriver::Impl::Write / ReadLine and SerialDriver::Impl::ReadLine up to
\* their run loop
ActorCall ==
    /\ pc = "idle" /\ kind \in Actors
    /\ \E op \in Ops(kind) :
         \/ NotConnected(op)
         \/ /\ is_open
            /\ \E now \in {"pending", "success", "error"} :
                 /\ io' = (IF now = "pending" THEN "pending" ELSE "none")
                 /\ ioOutcome' = (IF now = "pending" THEN "none" ELSE now)
                 /\ ready' = Started(Rearmed(ready), now)
            /\ timeout_' = FALSE
            /\ expiry' = "future" /\ wait' = 0
            /\ ec' = "would_block"
            /\ cur' = op /\ pc' = "loop" /\ result' = "none" /\ elapsed' = FALSE
            /\ UNCHANGED <<is_open, stopped, wire, hung>>
    /\ UNCHANGED <<kind, dev_id_, id_given, clientVars, restVars>>

\* TcpDriver::Impl::Connect (given a valid or an invalid address),
\* Write and ReadLine up to their run loop, StartDeadline included
TcpCall ==
    /\ pc = "idle" /\ kind = "tcp"
    /\ \E op \in Ops(kind) :
         \/ op # "Connect" /\ NotConnected(op)
         \/ /\ op = "Connect"
            /\ cur' = op /\ result' = "InvalidIPAddress"
            /\ UNCHANGED <<is_open, pc, ec, timeout_, expiry, wait, io, ready, stopped,
                           elapsed, ioOutcome, wire, hung>>
         \/ /\ op = "Connect" \/ is_open
            /\ \E now \in {"pending", "success", "error"} :
                 /\ io' = (IF now = "pending" THEN "pending" ELSE "none")
                 /\ ioOutcome' = (IF now = "pending" THEN "none" ELSE now)
                 /\ ready' = Started(Rearmed(ready), now)
            /\ expiry' = "future" /\ wait' = 1
            /\ timeout_' = FALSE
            /\ ec' = "would_block"
            /\ is_open' = TRUE
            /\ cur' = op /\ pc' = "loop" /\ result' = "none" /\ elapsed' = FALSE
            /\ UNCHANGED <<stopped, wire, hung>>
    /\ UNCHANGED <<kind, dev_id_, id_given, clientVars, restVars>>

\* the deadline of the timer passes
DeadlinePasses ==
    /\ expiry = "future"
    /\ expiry' = "past"
    /\ elapsed' = (IF pc = "idle" THEN elapsed ELSE TRUE)
    /\ UNCHANGED <<kind, dev_id_, id_given, clientVars, restVars, is_open, pc, cur, ec, timeout_,
                   wait, io, ready, stopped, ioOutcome, result, wire, hung>>

\* run_one with an empty queue waits on the reactor, which queues the handler
\* of the operation if it has completed (with success or an error) and then
\* the handler of the timer if its deadline has passed
Poll ==
    /\ pc = "loop" /\ ec = "would_block" /\ ~stopped /\ ready = <<>>
    /\ \E ioEv \in {"none", "success", "error"}, timerEv \in BOOLEAN :
         /\ ioEv # "none" \/ timerEv
         /\ ioEv # "none" => io = "pending"
         /\ timerEv => (wait > 0 /\ expiry = "past")
         /\ ready' = (IF ioEv # "none" THEN <<<<"io", ioEv>>>> ELSE <<>>)
                     \o (IF timerEv THEN <<<<"timer", "success">>>> ELSE <<>>)
         /\ io' = (IF ioEv # "none" THEN "none" ELSE io)
         /\ ioOutcome' = (IF ioEv # "none" THEN ioEv ELSE ioOutcome)
         /\ wait' = (IF timerEv THEN 0 ELSE wait)
    /\ UNCHANGED <<kind, dev_id_, id_given, clientVars, restVars, is_open, pc, cur, ec, timeout_,
                   expiry, stopped, elapsed, result, wire, hung>>

\* socket_.cancel() / port_.cancel(): a pending operation ends with
\* operation_aborted
Cancelled(q) == IF io = "pending" THEN Append(q, <<"io", "aborted">>) ELSE q

\* the handlers.  The operation's handler stores its error code in ec.
\* CheckDeadline (UDP, serial) runs whatever the code of the wait: if the
\* deadline has passed it sets timeout_, cancels the operation and moves the
\* deadline to infinity; it always waits again.  The handler StartDeadline
\* (TCP) installs does nothing when its wait was aborted, else sets
\* did_timeout_ and cancels the operation.
RunHandler ==
    /\ pc = "loop" /\ ec = "would_block" /\ ~stopped /\ ready # <<>>
    /\ LET h == Head(ready)
           fires == IF kind = "tcp" THEN h[2] # "aborted" ELSE expiry = "past"
       IN  /\ IF h[1] = "io"
              THEN /\ ec' = h[2]
                   /\ ready' = Tail(ready)
                   /\ UNCHANGED <<timeout_, io, expiry, wait>>
              ELSE /\ timeout_' = (IF fires THEN TRUE ELSE timeout_)
                   /\ ready' = (IF fires THEN Cancelled(Tail(ready)) ELSE Tail(ready))
                   /\ io' = (IF fires THEN "none" ELSE io)
                   /\ expiry' = (IF fires /\ kind \in Actors THEN "inf" ELSE expiry)
                   /\ wait' = (IF kind \in Actors THEN wait + 1 ELSE wait)
                   /\ UNCHANGED ec
    /\ stopped' = (Work(ready', wait', io') = 0)
    /\ UNCHANGED <<kind, dev_id_, id_given, clientVars, restVars, is_open, pc, cur, elapsed,
                   ioOutcome, result, wire, hung>>

\* run_one on a stopped io_service returns at once without running anything
Spin ==
    /\ pc = "loop" /\ ec = "would_block" /\ stopped /\ ~hung
    /\ hung' = TRUE
    /\ UNCHANGED <<kind, dev_id_, id_given, clientVars, restVars, is_open, pc, cur, ec, timeout_,
                   expiry, wait, io, ready, stopped, elapsed, ioOutcome, result, wire>>

\* the code a call returns after its run loop
LoopResult ==
    IF kind = "tcp"
    THEN IF ec # "success"
         THEN IF timeout_ THEN TimedOutCode(cur) ELSE FailedCode(cur)
         ELSE IF ~is_open THEN TimedOutCode(cur) ELSE "Success"
    ELSE IF timeout_ THEN TimedOutCode(cur)
         ELSE IF ec # "success" THEN FailedCode(cur) ELSE "Success"

\* a run loop that stops although the operation's handler has not run
LoopEnds_Early == ec # "would_block" \/ timeout_

\* while (ec == boost::asio::error::would_block)
LoopEnds == ec # "would_block"

LoopReturn ==
    /\ pc = "loop" /\ LoopEnds
    /\ result' = LoopResult
    /\ pc' = "idle"
    /\ UNCHANGED <<kind, dev_id_, id_given, clientVars, restVars, is_open, cur, ec, timeout_,
                   expiry, wait, io, ready, stopped, elapsed, ioOutcome, wire, hung>>

\* SerialDriver::Impl::Write up to its first blocking write; the timeout
\* is not used
SerialWrite ==
    /\ pc = "idle" /\ kind = "serial"
    /\ \/ NotConnected("Write")
       \/ /\ is_open
          /\ cur' = "Write" /\ pc' = "header" /\ result' = "none"
          /\ wire' = <<>> /\ elapsed' = FALSE
          /\ UNCHANGED <<is_open, ec, timeout_, expiry, wait, io, ready, stopped,
                         ioOutcome, hung>>
    /\ UNCHANGED <<kind, dev_id_, id_given, clientVars, restVars>>

\* a header that carries the id the caller gave, not the stored one
Header_OfGivenId == <<"@", id_given, " ">>

\* fmt::format_to_n(dev_id_buf, 7, "@{} ", dev_id_)
Header == <<"@", dev_id_, " ">>

\* boost::asio::write of the header ends: with an error the call returns
\* SendFailed, else the header is on the line and the payload is written
SerialWriteHeader ==
    /\ pc = "header"
    /\ \E e \in {"success", "error"} :
         IF e = "success"
         THEN /\ wire' = Append(wire, Header)
              /\ pc' = "payload"
              /\ UNCHANGED result
         ELSE /\ result' = "SendFailed"
              /\ pc' = "idle"
              /\ UNCHANGED wire
    /\ UNCHANGED <<kind, dev_id_, id_given, clientVars, restVars, is_open, cur, ec, timeout_,
                   expiry, wait, io, ready, stopped, elapsed, ioOutcome, hung>>

\* boost::asio::write of the payload ends
SerialWritePayload ==
    /\ pc = "payload"
    /\ \E e \in {"success", "error"} :
         IF e = "success"
         THEN /\ wire' = Append(wire, <<"data">>)
              /\ result' = "Success"
         ELSE /\ result' = "SendFailed"
              /\ UNCHANGED wire
    /\ pc' = "idle"
    /\ UNCHANGED <<kind, dev_id_, id_given, clientVars, restVars, is_open, cur, ec, timeout_,
                   expiry, wait, io, ready, stopped, elapsed, ioOutcome, hung>>

\* UdpMcastDriver::Impl::Write / ReadLine / ReadLineFrom up to run_for: the
\* error code starts as success, Run restarts the io_service
McastCall ==
    /\ pc = "idle" /\ kind = "mcast"
    /\ \E op \in Ops(kind) :
         \/ NotConnected(op)
         \/ /\ is_open
            /\ \E now \in {"pending", "success", "error"} :
                 /\ io' = (IF now = "pending" THEN "pending" ELSE "none")
                 /\ ioOutcome' = (IF now = "pending" THEN "none" ELSE now)
                 /\ ready' = Started(ready, now)
            /\ ec' = "success"
            /\ stopped' = FALSE
            /\ cur' = op /\ pc' = "run_for" /\ result' = "none" /\ elapsed' = FALSE
            /\ UNCHANGED <<is_open, timeout_, expiry, wait, wire, hung>>
    /\ UNCHANGED <<kind, dev_id_, id_given, clientVars, restVars>>

\* the operation completes while run_for waits on the reactor
McastCompletes ==
    /\ pc = "run_for" /\ io = "pending" /\ ~stopped
    /\ \E e \in {"success", "error"} :
         /\ ready' = Append(ready, <<"io", e>>)
         /\ ioOutcome' = e
    /\ io' = "none"
    /\ UNCHANGED <<kind, dev_id_, id_given, clientVars, restVars, is_open, pc, cur, ec, timeout_,
                   expiry, wait, stopped, elapsed, result, wire, hung>>

\* run_for or run runs the operation's handler; the io_service is then out of
\* work and stops
McastRunHandler ==
    /\ pc \in {"run_for", "run"} /\ ready # <<>> /\ ~stopped
    /\ ec' = Head(ready)[2]
    /\ ready' = Tail(ready)
    /\ stopped' = (Work(ready', wait, io) = 0)
    /\ UNCHANGED <<kind, dev_id_, id_given, clientVars, restVars, is_open, pc, cur, timeout_,
                   expiry, wait, io, elapsed, ioOutcome, result, wire, hung>>

\* run_for returns because the timeout has elapsed: the io_service is not
\* stopped, Run cancels the operation and calls run
McastTimeout ==
    /\ pc = "run_for" /\ ~stopped
    /\ elapsed' = TRUE
    /\ ready' = Cancelled(ready)
    /\ io' = "none"
    /\ pc' = "run"
    /\ UNCHANGED <<kind, dev_id_, id_given, clientVars, restVars, is_open, cur, ec, timeout_,
                   expiry, wait, stopped, ioOutcome, result, wire, hung>>

\* Run returns: true from a stopped run_for, false after run; the call turns
\* false into its TimedOut code and else looks at the error code
McastReturn ==
    /\ pc \in {"run_for", "run"} /\ stopped
    /\ result' = (IF pc = "run" THEN TimedOutCode(cur)
                  ELSE IF ec # "success" THEN FailedCode(cur) ELSE "Success")
    /\ pc' = "idle"
    /\ UNCHANGED <<kind, dev_id_, id_given, clientVars, restVars, is_open, cur, ec, timeout_,
                   expiry, wait, io, ready, stopped, elapsed, ioOutcome, wire, hung>>

DriverNext ==
    \/ Open
    \/ Close
    \/ SetDeviceID
    \/ ActorCall
    \/ TcpCall
    \/ SerialWrite
    \/ SerialWriteHeader
    \/ SerialWritePayload
    \/ McastCall
    \/ DeadlinePasses
    \/ Poll
    \/ RunHandler
    \/ Spin
    \/ LoopReturn
    \/ McastCompletes
    \/ McastRunHandler
    \/ McastTimeout
    \/ McastReturn

DriverSpec == DriverInit /\ [][DriverNext]_vars

\* the steps the calling thread takes by itself, and the passing of time
ThreadStep ==
    \/ DeadlinePasses
    \/ Poll
    \/ RunHandler
    \/ LoopReturn
    \/ SerialWriteHeader
    \/ SerialWritePayload
    \/ McastRunHandler
    \/ McastTimeout
    \/ McastReturn

\* the calling thread keeps running, deadlines pass, and the serial line
\* (opened without flow control) takes what is written to it
LiveSpec == DriverInit /\ [][DriverNext]_vars /\ WF_vars(ThreadStep)

---------------------------------------------------------------------------
(* Properties of the drivers *)

\* a call that drives the reactor has returned from its run loop
Returned ==
    /\ pc = "idle"
    /\ cur \in {"Connect", "Write", "ReadLine", "ReadLineFrom"}
    /\ result \notin {"none", "NotConnected", "InvalidIPAddress"}
    /\ ~(kind = "serial" /\ cur = "Write")

\* handlers of send/receive/connect operations still in the queue
QueuedIo == {i \in 1..Len(ready) : ready[i][1] = "io"}

\* C6 as stated: a call whose operation had not completed when its timeout
\* elapsed has cancelled the operation and returns its TimedOut code; a call
\* whose operation ended with an I/O error before the deadline returns its
\* general failure code and never a TimedOut code.
C6_AsStated ==
    Returned =>
        /\ (ioOutcome = "none" /\ elapsed) =>
               (result = TimedOutCode(cur) /\ io = "none")
        /\ (ioOutcome = "error" /\ ~elapsed) => result = FailedCode(cur)

\* C7 as stated: every call that has started eventually returns.
C7_AsStated == (pc # "idle") ~> (pc = "idle")

\* C8: when a call has returned, no send/receive/connect it started is still
\* pending and no handler of such an operation is still waiting to run.
C8_NothingPending == (pc = "idle") => (io = "none" /\ QueuedIo = {})

C8_Witness ==
    /\ Returned /\ elapsed
    /\ ioOutcome = "none"
    /\ result = TimedOutCode(cur)

\* C9 as stated: after SetDeviceID(id) on the serial driver IsSendOnly is true
\* when id is 32 or more and false when id is an addressable id.
C9_AsStated ==
    (kind = "serial" /\ id_given # -1) =>
        (IsSendOnly <=> id_given > kMaxAddressableId)

\* SerialDriver::Impl::GetDeviceID
GetDeviceID == dev_id_

\* the payload is on the line only behind a header
HeaderFirst ==
    \A i \in 1..Len(wire) : wire[i] = <<"data">> => (i = 2 /\ wire[1][1] = "@")

\* C10 as stated: every serial Write transmits the header of the id most
\* recently given to SetDeviceID and then the payload.
C10_AsStated ==
    /\ (pc = "payload" /\ id_given # -1) => wire = << <<"@", id_given, " ">> >>
    /\ HeaderFirst

\* C10: every serial Write on an open port transmits, before the payload and
\* with nothing in between, the header of the driver's current target device
\* id as GetDeviceID reports it: the id most recently given to SetDeviceID
\* limited to 255, or 0 when none was given; no payload is on the line
\* without its header in front of it.
C10_HeaderOfCurrentId ==
    /\ pc = "payload" => wire = << <<"@", GetDeviceID, " ">> >>
    /\ kind = "serial" =>
          GetDeviceID = (IF id_given = -1 THEN 0 ELSE Min(id_given, kMaxDevId))
    /\ HeaderFirst

C10_Witness ==
    /\ kind = "serial" /\ pc = "idle" /\ cur = "Write" /\ result = "Success"
    /\ id_given > kMaxDevId
    /\ wire = << <<"@", kMaxDevId, " ">>, <<"data">> >>

---------------------------------------------------------------------------
(* Claims about the state a failed Open or Connect leaves *)

\* the last call was an Open or a Connect that has returned an error other
\* than AlreadyConnected
OpenFailed ==
    /\ pc = "idle" /\ cur \in {"Open", "Connect"}
    /\ result \notin {"none", "Success", "AlreadyConnected"}

\* C33 as stated: when Open or Connect has returned an error other than
\* AlreadyConnected the driver is closed, so that the next Write or ReadLine
\* returns NotConnected and the next Open is a fresh attempt.
C33_AsStated == OpenFailed => ~is_open

\* the failures that do leave the driver closed: every failed Open of the UDP
\* and multicast drivers, and the serial port that could not be opened
C33_ClosedAfter ==
    (OpenFailed /\ cur = "Open"
        /\ (kind \in {"udp", "mcast"} \/ result = "OpeningSerialPortFailed")) =>
        ~is_open

\* the last call was a Write or a ReadLine that went through the run loop and
\* has returned
IoReturned == Returned /\ cur \in {"Write", "ReadLine"}

\* C35 as stated: a timeout of one call does not leak into the next call on
\* the same driver: a Write or ReadLine whose operation completes before its
\* own deadline returns Success, none returns a TimedOut code before its own
\* deadline has passed, and none is kept from returning by what an earlier
\* call has left.
C35_AsStated ==
    /\ IoReturned =>
          /\ (ioOutcome = "success" /\ ~elapsed) => result = "Success"
          /\ result = TimedOutCode(cur) => elapsed
    /\ ~hung

\* the same for the drivers other than the TCP driver
C35_ButTcp == kind # "tcp" => C35_AsStated

---------------------------------------------------------------------------
(* The discovery scans (Discovery.cpp), one action per driver call.         *)

\* most replies a multicast scan reads before its reads time out
MaxReplies == 3

\* ids of the units on the serial bus, and the range ends a caller passes
Responders == {5, 254, kUint8Max}
Ends == {0, 5, 10, 254, kUint8Max}

\* addresses of the units on the network
Senders == {"10.0.0.1", "10.0.0.2"}

\* the serial number of a unit
SerialOf(who) == <<"SN", who>>

\* the reply of a unit to *IDN?, as its comma separated fields, a reply
\* with too few fields and a reply with too many
Idn(who) == <<"BCI", "ABS", SerialOf(who), "1.0">>
Malformed == <<"BCI", "ABS">>
Overlong == <<"BCI", "ABS", <<"SN", 0>>, "1.0", "rc1">>
Bad == {Malformed, Overlong}

\* a split that only counts the fields it needs
SplitRespMnemonics_AtLeast(line, n) ==
    IF Len(line) >= n THEN "Success" ELSE "InvalidResponse"

\* scpi::SplitRespMnemonics into an array of n fields
SplitRespMnemonics(line, n) ==
    IF Len(line) = n THEN "Success" ELSE "InvalidResponse"

\* the values a scan returns: Result holding the list, or Err(code)
Ok(list) == [code |-> "Success", list |-> list]
Err(code) == [code |-> code, list |-> <<>>]

\* a destructor that forgets to close
Destroyed_NoClose(d) == [d EXCEPT !.alive = FALSE]

\* ~SerialDriver() { Close(); } and ~UdpMcastDriver() { Close(); } as the
\* scan's local driver goes out of scope
Destroyed(d) == [d EXCEPT !.alive = FALSE, !.open = FALSE]

\* a total kept in a std::uint8_t
Total_Uint8(f, l) == (l - f + 1) % (kUint8Max + 1)

\* int total = last_id - first_id + 1
Total(f, l) == l - f + 1

\* a range test that lets every range through
RangeValid_Unchecked(f, l) == TRUE

\* if (last_id < first_id) return Err(ec::kInvalidArgument)
RangeValid(f, l) == ~(l < f)

\* a probe that addresses the first id every time
ProbeId_Stuck(f, k) == f

\* first_id + i
ProbeId(f, k) == f + k

\* i < total
LoopContinues(k, n) == k < n

\* a list that grows at the front
Found_AtFront(list, entry) == <<entry>> \o list

\* devices.emplace_back(...)
Found(list, entry) == Append(list, entry)

\* the scan returns r; its driver, if it has one, is destroyed
ScanReturns(r) ==
    /\ scan_ret' = r
    /\ spc' = "done"
    /\ drv' = IF drv.alive THEN Destroyed(drv) ELSE drv

DiscInit ==
    /\ kind = "serial" /\ dev_id_ = 0
    /\ driver_ = "none" /\ last = NoCall
    /\ DriverIdle
    /\ RestIdle

\* SerialDiscovery up to the loop: the range check, the driver, Open
SerialDiscoveryStart ==
    /\ scan = "none"
    /\ \E f \in Ends, l \in Ends :
         /\ scan' = "serial" /\ first_id' = f /\ last_id' = l
         /\ IF ~RangeValid(f, l)
            THEN /\ scan_ret' = Err("InvalidArgument")
                 /\ spc' = "done"
                 /\ UNCHANGED <<ret, total, drv, made>>
            ELSE \E o \in {"Success", "OpeningSerialPortFailed",
                           "FailedToConfigurePort"} :
                   /\ ret' = o
                   /\ made' = [made EXCEPT !.open = @ + 1]
                   /\ LET opened == [alive |-> TRUE,
                                     open |-> o # "OpeningSerialPortFailed",
                                     id |-> 0]
                      IN  IF o # "Success"
                          THEN /\ scan_ret' = Err(o)
                               /\ spc' = "done"
                               /\ drv' = Destroyed(opened)
                               /\ UNCHANGED total
                          ELSE /\ total' = Total(f, l)
                               /\ IF LoopContinues(0, total')
                                  THEN /\ drv' = opened
                                       /\ spc' = "write"
                                       /\ UNCHANGED scan_ret
                                  ELSE /\ scan_ret' = Ok(devices)
                                       /\ spc' = "done"
                                       /\ drv' = Destroyed(opened)
    /\ UNCHANGED <<baseVars, resp, scan_i, devices, arrived>>

\* driver.SetDeviceID(first_id + scan_i); ret = driver.Write("*IDN?\r\n", 100)
SerialProbeWrite ==
    /\ scan = "serial" /\ spc = "write"
    /\ \E w \in {"Success", "SendFailed"} : ret' = w
    /\ drv' = [drv EXCEPT !.id = SetDeviceIDValue(ProbeId(first_id, scan_i))]
    /\ made' = [made EXCEPT !.set = @ + 1, !.write = @ + 1]
    /\ spc' = "read"
    /\ UNCHANGED <<baseVars, resp, scan, first_id, last_id, total, scan_i, devices,
                   scan_ret, arrived>>

\* most replies that wait unread on the serial line
MaxLate == 1

\* what a serial scan leaves alone besides the line
scanBase == <<kind, dev_id_, clientVars, driverVars, raceVars, input_buffer_, sent,
              returned, libVars>>

\* what the unit probed puts on the line: its reply, well formed or not, if
\* there is such a unit and the query was written, or nothing
Answers ==
    IF drv.id \in Responders /\ ret = "Success" /\ Len(net) < MaxLate
    THEN {<<>>, <<Idn(drv.id)>>} \cup {<<b>> : b \in Bad}
    ELSE {<<>>}

\* what driver.ReadLine(50) may give a probe: the oldest line that waits
\* unread on the port, whichever probe it answers, or an error (the window
\* of 50 ms may end before the line has come in)
ProbeReplies(queue) ==
    {[code |-> e, ip |-> "", line |-> <<>>] : e \in {"ReadTimedOut", "ReadFailed"}}
    \cup (IF queue # <<>>
          THEN {[code |-> "Success", ip |-> "", line |-> Head(queue)]}
          ELSE {})

\* the rest of the loop body, ++i and the loop test
SerialProbeRead ==
    /\ scan = "serial" /\ spc = "read"
    /\ made' = [made EXCEPT !.read = @ + 1]
    /\ \E a \in Answers : \E r \in ProbeReplies(net \o a) :
         LET entry == [id |-> ProbeId(first_id, scan_i) % (kUint8Max + 1),
                       serial |-> r.line[3]]
             found == IF r.code = "Success" THEN Found(devices, entry) ELSE devices
         IN  /\ resp' = r
             /\ net' = IF r.code = "Success" THEN Tail(net \o a) ELSE net \o a
             /\ IF r.code = "Success"
                       /\ SplitRespMnemonics(r.line, kIdnFields) # "Success"
                THEN /\ ScanReturns(Err("InvalidResponse"))
                     /\ UNCHANGED <<scan_i, devices, arrived>>
                ELSE IF r.code \notin {"Success", "ReadTimedOut"}
                THEN /\ ScanReturns(Err(r.code))
                     /\ UNCHANGED <<scan_i, devices, arrived>>
                ELSE /\ devices' = found
                     /\ arrived' = IF r.code = "Success" THEN Append(arrived, drv.id)
                                   ELSE arrived
                     /\ scan_i' = scan_i + 1
                     /\ IF LoopContinues(scan_i + 1, total)
                        THEN spc' = "write" /\ UNCHANGED <<scan_ret, drv>>
                        ELSE ScanReturns(Ok(found))
    /\ UNCHANGED <<scanBase, ret, scan, first_id, last_id, total>>

\* MulticastDiscovery up to its Write: the driver and Open
MulticastDiscoveryStart ==
    /\ scan = "none"
    /\ scan' = "multicast"
    /\ made' = [made EXCEPT !.open = @ + 1]
    /\ \E o \in {"Success", "InvalidIPAddress", "SocketError", "FailedToJoinGroup"} :
         /\ ret' = o
         /\ IF o # "Success"
            THEN /\ scan_ret' = Err(o)
                 /\ spc' = "done"
                 /\ drv' = Destroyed([alive |-> TRUE, open |-> FALSE, id |-> 0])
            ELSE /\ drv' = [alive |-> TRUE, open |-> TRUE, id |-> 0]
                 /\ spc' = "write"
                 /\ UNCHANGED scan_ret
    /\ UNCHANGED <<baseVars, resp, first_id, last_id, total, scan_i, devices, arrived>>

\* ret = driver.Write("*IDN?\r\n", 100)
MulticastWrite ==
    /\ scan = "multicast" /\ spc = "write"
    /\ made' = [made EXCEPT !.write = @ + 1]
    /\ \E w \in {"Success", "SendFailed", "SendTimedOut"} :
         /\ ret' = w
         /\ IF w # "Success"
            THEN ScanReturns(Err(w))
            ELSE spc' = "read" /\ UNCHANGED <<scan_ret, drv>>
    /\ UNCHANGED <<baseVars, resp, scan, first_id, last_id, total, scan_i, devices,
                   arrived>>

\* what driver.ReadLineFrom(100) may give: the reply of a unit, or an error
ScanReplies ==
    {[code |-> e, ip |-> "", line |-> <<>>] : e \in {"ReadTimedOut", "ReadFailed"}}
    \cup (IF Len(arrived) < MaxReplies
          THEN UNION {{[code |-> "Success", ip |-> s, line |-> l] :
                          l \in {Idn(s)} \cup Bad} : s \in Senders}
          ELSE {})

\* one turn of the loop while (!done)
MulticastRead ==
    /\ scan = "multicast" /\ spc = "read"
    /\ made' = [made EXCEPT !.read = @ + 1]
    /\ \E r \in ScanReplies :
         /\ resp' = r
         /\ IF r.code = "Success"
            THEN IF SplitRespMnemonics(r.line, kIdnFields) # "Success"
                 THEN /\ ScanReturns(Err("InvalidResponse"))
                      /\ UNCHANGED <<devices, arrived>>
                 ELSE /\ devices' = Found(devices, [ip |-> r.ip, serial |-> r.line[3]])
                      /\ arrived' = Append(arrived, r.ip)
                      /\ UNCHANGED <<spc, scan_ret, drv>>
            ELSE /\ IF r.code # "ReadTimedOut"
                    THEN ScanReturns(Err(r.code))
                    ELSE ScanReturns(Ok(devices))
                 /\ UNCHANGED <<devices, arrived>>
    /\ UNCHANGED <<baseVars, ret, scan, first_id, last_id, total, scan_i>>

DiscNext ==
    \/ SerialDiscoveryStart
    \/ SerialProbeWrite
    \/ SerialProbeRead
    \/ MulticastDiscoveryStart
    \/ MulticastWrite
    \/ MulticastRead

DiscSpec == DiscInit /\ [][DiscNext]_vars

\* the steps of the thread that runs the scan: the driver made return
ScanStep ==
    \/ SerialProbeWrite
    \/ SerialProbeRead
    \/ MulticastWrite
    \/ MulticastRead

DiscLiveSpec == DiscInit /\ [][DiscNext]_vars /\ WF_vars(ScanStep)

---------------------------------------------------------------------------
(* Properties of the discovery scans *)

\* C11: MulticastDiscovery writes the identity query once, before any read;
\* its list holds one entry (sender address, serial number) for each
\* well-formed reply read, in the order read; when a read times out the scan
\* returns Success with that list, and ReadTimedOut is never its result.
C11_MulticastScan ==
    scan = "multicast" =>
        /\ made.write <= 1
        /\ made.read > 0 => (made.write = 1 /\ ret = "Success")
        /\ Len(devices) = Len(arrived)
        /\ \A j \in 1..Len(devices) :
              devices[j] = [ip |-> arrived[j], serial |-> SerialOf(arrived[j])]
        /\ (spc = "done" /\ resp.code = "ReadTimedOut") => scan_ret = Ok(devices)
        /\ scan_ret.code # "ReadTimedOut"

C11_Witness ==
    /\ scan = "multicast" /\ spc = "done"
    /\ resp.code = "ReadTimedOut"
    /\ made.write = 1 /\ made.read = 3
    /\ scan_ret = Ok(<<[ip |-> "10.0.0.2", serial |-> SerialOf("10.0.0.2")],
                       [ip |-> "10.0.0.1", serial |-> SerialOf("10.0.0.1")]>>)

\* C12: SerialDiscovery probes the ids of its range once each in ascending
\* order, a probe being SetDeviceID, one Write and one ReadLine; a probe whose
\* read times out adds no entry and the scan goes on; the list holds exactly
\* the ids whose read returned a reply, in ascending order.
C12_SerialScan ==
    scan = "serial" =>
        /\ spc = "write" =>
              (made.set = scan_i /\ made.write = scan_i /\ made.read = scan_i)
        /\ spc = "read" =>
              /\ made.set = scan_i + 1 /\ made.write = scan_i + 1
              /\ made.read = scan_i
              /\ drv.id = first_id + scan_i
        /\ Len(devices) = Len(arrived)
        /\ \A j \in 1..Len(devices) :
              devices[j].id = arrived[j]
        /\ \A j \in 1..Len(devices) : \A k \in 1..Len(devices) :
              j < k => devices[j].id < devices[k].id
        /\ (spc = "done" /\ resp.code = "ReadTimedOut") =>
              (scan_ret = Ok(devices) /\ made.read = last_id - first_id + 1)

C12_Witness ==
    /\ scan = "serial" /\ spc = "done"
    /\ first_id = 0 /\ last_id = 10
    /\ made.read = 11
    /\ scan_ret = Ok(<<[id |-> 5, serial |-> SerialOf(5)]>>)

\* C13 as stated: in both scans a failed Open, a failed Write of the identity
\* query and a read error other than a timeout each end the scan at once and
\* are the scan's result.
C13_AsStated ==
    scan # "none" =>
        /\ ret \notin {"none", "Success"} =>
              (spc = "done" /\ scan_ret = Err(ret))
        /\ resp.code \notin {"none", "Success", "ReadTimedOut"} =>
              (spc = "done" /\ scan_ret = Err(resp.code))

\* C14: SerialDiscovery with last_id < first_id returns InvalidArgument and
\* has made no driver and no Open, SetDeviceID, Write or ReadLine call.
C14_RangeChecked ==
    (scan = "serial" /\ last_id < first_id) =>
        /\ spc = "done" /\ scan_ret = Err("InvalidArgument")
        /\ made = [open |-> 0, set |-> 0, write |-> 0, read |-> 0]
        /\ drv = NoDriver

C14_Witness ==
    /\ scan = "serial" /\ first_id = kUint8Max /\ last_id = 0
    /\ scan_ret.code = "InvalidArgument"

\* the probes of a serial scan stay inside its range
InRange ==
    (scan = "serial" /\ spc \in {"write", "read"}) =>
        /\ total = last_id - first_id + 1
        /\ scan_i < total
        /\ first_id + scan_i <= last_id
        /\ drv.id <= last_id

\* a serial scan that ran to the end of its range made one probe per id
AllProbed ==
    (scan = "serial" /\ spc = "done" /\ scan_ret.code = "Success") =>
        /\ scan_i = last_id - first_id + 1
        /\ made.read = last_id - first_id + 1
        /\ made.write = last_id - first_id + 1

\* C15: SerialDiscovery over a range with first_id <= last_id ends; its
\* counter stays below the number of ids of the range, the id probed never
\* exceeds last_id, and a scan that no error ends makes exactly
\* last_id - first_id + 1 probes.
C15_Terminates ==
    /\ [](InRange /\ AllProbed)
    /\ (scan = "serial" /\ spc # "done") ~> (spc = "done")

C15_Witness ==
    /\ scan = "serial" /\ spc = "done"
    /\ first_id = 0 /\ last_id = kUint8Max
    /\ scan_ret.code = "Success"
    /\ made.read = kUint8Max + 1

\* C16: when a scan has returned, whatever its result, the driver it made no
\* longer exists and its port or socket is closed; a scan opens one driver at
\* most.
C16_DriverGone ==
    /\ made.open <= 1
    /\ spc = "done" => (~drv.alive /\ ~drv.open)

C16_Witness ==
    /\ spc = "done" /\ made.open = 1
    /\ scan_ret.code \in {"InvalidResponse", "FailedToConfigurePort"}
    /\ ~drv.open

\* C31: every entry (id, serial) of a serial scan carries the serial number
\* of the unit addressed with that id: a reply that comes in after the read
\* window of one id is never recorded under a later id.
C31_AsStated ==
    scan = "serial" =>
        \A j \in 1..Len(devices) : devices[j].serial = SerialOf(devices[j].id)

\* the serial number of an entry is that of a unit probed no later than the
\* entry's id, and no unit's reply is recorded twice
C31_ProbedBefore ==
    scan = "serial" =>
        /\ \A j \in 1..Len(devices) :
              \E u \in Responders :
                  /\ devices[j].serial = SerialOf(u)
                  /\ first_id <= u /\ u <= devices[j].id
        /\ \A j \in 1..Len(devices) : \A k \in 1..Len(devices) :
              j # k => devices[j].serial # devices[k].serial

\* C39: in both scans a reply read that does not split into exactly four
\* fields ends the scan at once with InvalidResponse, and the devices
\* collected before it are not returned.
C39_MalformedEnds ==
    (scan # "none" /\ resp.code = "Success" /\ Len(resp.line) # kIdnFields) =>
        /\ spc = "done"
        /\ scan_ret = [code |-> "InvalidResponse", list |-> <<>>]
        /\ ~drv.alive

\* every line a scan has recorded had exactly four fields: the entries are as
\* many as the well-formed replies read
C39_OnlyFour ==
    /\ Len(devices) = Len(arrived)
    /\ (scan # "none" /\ resp.code = "Success" /\ spc # "done") =>
           Len(resp.line) = kIdnFields

\* a serial scan that had found unit 5 and then read a reply with too many
\* fields, and a multicast scan that had two entries and read one with too few
C39_Witness ==
    /\ spc = "done" /\ scan_ret.code = "InvalidResponse"
    /\ \/ scan = "serial" /\ resp.line = Overlong /\ Len(devices) = 1
       \/ scan = "multicast" /\ resp.line = Malformed /\ Len(devices) = 2

---------------------------------------------------------------------------
(* Two threads that call queries of one client, at the granularity of the   *)
(* driver calls SendAndRecv makes.  The device answers the commands in the   *)
(* order in which they reach it; a reply names the command it answers and    *)
(* the thread that wrote that command.                                       *)

\* most commands the two threads write
MaxCommands == 3

\* the queries the threads call
Queries == {"*IDN?", "SYST:ERR:COUN?"}

RaceInit ==
    /\ kind = "udp" /\ dev_id_ = 0
    /\ driver_ = "drv" /\ last = NoCall
    /\ DriverIdle
    /\ RestIdle

\* a transport that keeps for each thread the replies to its own commands
Available_Own(t) == {j \in 1..Len(replies) : replies[j].to = t}

\* the replies a ReadLine called by thread t can return: the driver has one
\* socket and one buffer and knows nothing of threads
Available(t) == 1..Len(replies)

\* driver_->ReadLine returns the oldest of them
Oldest(S) == CHOOSE j \in S : \A k \in S : j <= k

\* the sequence q without its j-th element
Without(q, j) == [k \in 1..(Len(q) - 1) |-> IF k < j THEN q[k] ELSE q[k + 1]]

\* auto res = driver_->Write(buf, kWriteTimeoutMs): the command reaches the
\* device, which will answer it, or the Write fails and SendAndRecv returns
ThreadWrite(t) ==
    /\ tpc[t] = "idle" /\ written < MaxCommands
    /\ \E c \in Queries, w \in {"Success", "SendFailed"} :
         /\ tcmd' = [tcmd EXCEPT ![t] = c]
         /\ IF w = "Success"
            THEN /\ written' = written + 1
                 /\ replies' = Append(replies, [code |-> "Success", seq |-> written + 1,
                                                to |-> t, cmd |-> c])
                 /\ tpc' = [tpc EXCEPT ![t] = "written"]
                 /\ UNCHANGED tgot
            ELSE /\ tgot' = [tgot EXCEPT ![t] = [NoReply EXCEPT !.code = w]]
                 /\ tpc' = [tpc EXCEPT ![t] = "done"]
                 /\ UNCHANGED <<written, replies>>
    /\ UNCHANGED <<nonRaceVars, taken>>

\* return driver_->ReadLine(kReadTimeoutMs): a reply is there, or the read
\* times out
ThreadRead(t) ==
    /\ tpc[t] = "written"
    /\ IF Available(t) # {}
       THEN /\ tgot' = [tgot EXCEPT ![t] = replies[Oldest(Available(t))]]
            /\ replies' = Without(replies, Oldest(Available(t)))
            /\ taken' = taken + 1
       ELSE /\ tgot' = [tgot EXCEPT ![t] = [NoReply EXCEPT !.code = "ReadTimedOut"]]
            /\ UNCHANGED <<replies, taken>>
    /\ tpc' = [tpc EXCEPT ![t] = "done"]
    /\ UNCHANGED <<nonRaceVars, tcmd, written>>

\* the caller takes the result of its call
ThreadReturn(t) ==
    /\ tpc[t] = "done"
    /\ tpc' = [tpc EXCEPT ![t] = "idle"]
    /\ tgot' = [tgot EXCEPT ![t] = NoReply]
    /\ UNCHANGED <<nonRaceVars, tcmd, replies, written, taken>>

RaceNext ==
    \E t \in Threads :
        \/ ThreadWrite(t)
        \/ ThreadRead(t)
        \/ ThreadReturn(t)

RaceSpec == RaceInit /\ [][RaceNext]_vars

\* C17: SendAndRecv takes no lock, so that a thread's Write may come between
\* the Write and the ReadLine of the other thread, and a ReadLine returns the
\* oldest reply not yet read, whichever thread's command it answers: the
\* j-th ReadLine to return a reply returns the reply to the j-th command
\* written.  (In C17_Witness a call has returned the reply to the other
\* thread's command.)
C17_OldestReplyToAnyThread ==
    /\ \A t \in Threads : tgot[t].code = "Success" => tgot[t].seq <= taken
    /\ \A j \in 1..Len(replies) : replies[j].seq = taken + j

C17_Witness ==
    \E t \in Threads :
        /\ tpc[t] = "done" /\ tgot[t].code = "Success"
        /\ tgot[t].to # t
        /\ tgot[t].cmd # tcmd[t]

---------------------------------------------------------------------------
(* The byte stream of a connected TcpDriver: what the peer sends, what       *)
(* input_buffer_ holds and what ReadLine returns, one action per ReadLine    *)
(* call.                                                                     *)

\* most bytes the peer sends
MaxSent == 4

\* the bytes of the stream: a character of a line, and the end of a line
Bytes == {"a", "\n"}

\* the buffer holds the delimiter of async_read_until
HasLine(b) == \E j \in 1..Len(b) : b[j] = "\n"

\* position of the first delimiter
FirstNl(b) == CHOOSE j \in 1..Len(b) : b[j] = "\n" /\ \A k \in 1..(j - 1) : b[k] # "\n"

\* std::getline(is, line): the line without its delimiter, and what stays in
\* the buffer
GetLine(b) == SubSeq(b, 1, FirstNl(b) - 1)
AfterLine(b) == SubSeq(b, FirstNl(b) + 1, Len(b))

\* a TcpDriver after a Connect that succeeded: the socket is open and the
\* wait on the deadline timer is still pending
StreamInit ==
    /\ kind = "tcp" /\ dev_id_ = 0 /\ id_given = -1
    /\ driver_ = "none" /\ last = NoCall
    /\ is_open = TRUE /\ pc = "idle" /\ cur = "Connect" /\ ec = "success"
    /\ timeout_ = FALSE /\ expiry = "future" /\ wait = 1
    /\ io = "none" /\ ready = <<>> /\ stopped = FALSE /\ elapsed = FALSE
    /\ ioOutcome = "success" /\ result = "Success" /\ wire = <<>> /\ hung = FALSE
    /\ RestIdle

\* the peer sends a byte
PeerSends ==
    /\ Len(sent) < MaxSent
    /\ \E c \in Bytes :
         /\ net' = Append(net, c)
         /\ sent' = Append(sent, c)
    /\ UNCHANGED <<kind, dev_id_, clientVars, driverVars, scanVars, raceVars, libVars,
                   input_buffer_, returned>>

\* the handler of a wait whose deadline passed as its call returned is still
\* queued: the next call runs it first
StaleTimer == <<<<"timer", "success">>>>

\* TcpDriver::Impl::ReadLine on the open socket, as a whole.  k is the number
\* of bytes async_read_until moves from the socket into input_buffer_: none
\* if the buffer holds a line already.  With a line in the buffer the call
\* returns it (late: the deadline passes too as the operation completes, and
\* the handler of the timer stays queued).  With no line, a stale handler of
\* the timer cancels the operation while the new wait stays pending; else the
\* operation fails, or the deadline passes, the handlers of the timer and of
\* the cancelled operation run and the io_service, out of work, stops.  On an
\* io_service that has stopped run_one runs no handler and the loop of the
\* call does not end.
TcpReadLine ==
    /\ pc = "idle" /\ kind = "tcp" /\ is_open
    /\ cur' = "ReadLine"
    /\ IF stopped
       THEN /\ hung' = TRUE
            /\ pc' = "loop" /\ ec' = "would_block" /\ result' = "none"
            /\ timeout_' = FALSE /\ expiry' = "future" /\ wait' = 1
            /\ elapsed' = FALSE /\ ioOutcome' = "none"
            /\ UNCHANGED <<stopped, ready, input_buffer_, net, returned>>
       ELSE \E k \in 0..Len(net), failed \in BOOLEAN, late \in BOOLEAN :
              LET buf == input_buffer_ \o SubSeq(net, 1, k)
                  stale == ready # <<>>
              IN  /\ HasLine(input_buffer_) => k = 0
                  /\ (HasLine(buf) \/ stale) => ~failed
                  /\ (~HasLine(buf) \/ stale) => ~late
                  /\ net' = SubSeq(net, k + 1, Len(net))
                  /\ IF HasLine(buf)
                     THEN /\ input_buffer_' = AfterLine(buf)
                          /\ returned' = Append(returned, GetLine(buf))
                          /\ result' = "Success" /\ ec' = "success"
                          /\ ioOutcome' = "success"
                          /\ timeout_' = stale
                          /\ ready' = (IF late THEN StaleTimer ELSE <<>>)
                          /\ wait' = (IF late THEN 0 ELSE 1)
                          /\ expiry' = (IF late THEN "past" ELSE "future")
                          /\ elapsed' = late
                          /\ UNCHANGED stopped
                     ELSE /\ input_buffer_' = buf
                          /\ ready' = <<>>
                          /\ UNCHANGED returned
                          /\ IF stale
                             THEN /\ result' = "ReadTimedOut" /\ ec' = "aborted"
                                  /\ ioOutcome' = "none"
                                  /\ timeout_' = TRUE /\ wait' = 1
                                  /\ expiry' = "future" /\ elapsed' = FALSE
                                  /\ UNCHANGED stopped
                             ELSE IF failed
                             THEN /\ result' = "ReadFailed" /\ ec' = "error"
                                  /\ ioOutcome' = "error"
                                  /\ timeout_' = FALSE /\ wait' = 1
                                  /\ expiry' = "future" /\ elapsed' = FALSE
                                  /\ UNCHANGED stopped
                             ELSE /\ result' = "ReadTimedOut" /\ ec' = "aborted"
                                  /\ ioOutcome' = "none"
                                  /\ timeout_' = TRUE /\ wait' = 0
                                  /\ expiry' = "past" /\ elapsed' = TRUE
                                  /\ stopped' = TRUE
                  /\ UNCHANGED <<pc, hung>>
    /\ UNCHANGED <<kind, dev_id_, id_given, clientVars, is_open, io, wire,
                   scanVars, raceVars, libVars, sent>>

StreamNext ==
    \/ PeerSends
    \/ TcpReadLine

StreamSpec == StreamInit /\ [][StreamNext]_vars

\* the lines as bytes, each with its delimiter
RECURSIVE Joined(_)
Joined(ls) == IF ls = <<>> THEN <<>> ELSE Head(ls) \o <<"\n">> \o Joined(Tail(ls))

\* the lines returned, the buffer and the bytes not read yet make up what the
\* peer has sent: every call returns the next line, whole, and no byte is lost
InOrder ==
    /\ Joined(returned) \o input_buffer_ \o net = sent
    /\ \A j \in 1..Len(returned) : ~HasLine(returned[j])

\* C20 as stated: each successful ReadLine returns exactly one line, the
\* lines come in the order received and no byte received is lost between
\* calls, and once the rest of a line whose first bytes are in the buffer has
\* arrived, a ReadLine returns: it is not left in its loop.
C20_AsStated ==
    /\ InOrder
    /\ (cur = "ReadLine" /\ input_buffer_ # <<>> /\ HasLine(input_buffer_ \o net)) => ~hung

---------------------------------------------------------------------------
(* The text utilities of ScpiUtil.h, ScpiUtil.cpp and StringUtil.h.  A text  *)
(* is a sequence of symbols; a symbol stands for one character or for a      *)
(* run of characters that the texts offered never split ("OPEN", "CIRCUIT"). *)

\* longest text offered to the mnemonic parsers, in symbols
MaxWord == 3

\* the texts of at most n symbols of S
Texts(S, n) == UNION {[1..k -> S] : k \in 0..n}

\* util::kTrimChars (the blank stands for each of them)
kTrimChars == {" "}

\* find_first_not_of(kTrimChars): the position, or past the end for npos
\* under (std::min)(s, v.size())
FirstNotOf(v) ==
    IF \A j \in 1..Len(v) : v[j] \in kTrimChars THEN Len(v) + 1
    ELSE CHOOSE j \in 1..Len(v) :
            v[j] \notin kTrimChars /\ \A k \in 1..(j - 1) : v[k] \in kTrimChars

\* find_last_not_of(kTrimChars): the position, or 0 for npos
LastNotOf(v) ==
    IF \A j \in 1..Len(v) : v[j] \in kTrimChars THEN 0
    ELSE CHOOSE j \in 1..Len(v) :
            v[j] \notin kTrimChars /\ \A k \in (j + 1)..Len(v) : v[k] \in kTrimChars

\* util::Trim
Trim(v) ==
    IF Len(v) = 0 THEN v
    ELSE LET w == SubSeq(v, FirstNotOf(v), Len(v))
         IN  IF Len(w) <= 1 THEN w
             ELSE IF LastNotOf(w) # 0 THEN SubSeq(w, 1, LastNotOf(w))
             ELSE w

\* results of the parsers
Parsed(value) == [code |-> "Success", value |-> value]
Invalid == [code |-> "InvalidResponse", value |-> <<>>]

\* the four enums and their values; "bad" is a value that is no enumerator
Enums == {"CellFault", "CellSenseRange", "CellMode", "CellPrecisionMode"}
CellModes == {"kConstantVoltage", "kCurrentLimited"}
CellPrecisionModes == {"kNormal", "kHighPrecision", "kNoiseRejection", "bad"}
EnumValues(e) ==
    CASE e = "CellFault" -> CellFaults
      [] e = "CellSenseRange" -> CellSenseRanges
      [] e = "CellMode" -> CellModes
      [] e = "CellPrecisionMode" -> CellPrecisionModes

\* scpi::CellPrecisionModeMnemonic
CellPrecisionModeMnemonic(mode) ==
    CASE mode = "kNormal" -> "NORM"
      [] mode = "kHighPrecision" -> "PREC"
      [] mode = "kNoiseRejection" -> "FILT"
      [] OTHER -> ""

\* the enums that have a function building their mnemonic
SendEnums == {"CellFault", "CellSenseRange", "CellPrecisionMode"}
MnemonicOf(e, v) ==
    CASE e = "CellFault" -> CellFaultMnemonic(v)
      [] e = "CellSenseRange" -> CellSenseRangeMnemonic(v)
      [] e = "CellPrecisionMode" -> CellPrecisionModeMnemonic(v)

\* for (auto [text, value] : kOpts) if (str == text) return value;
Lookup(kOpts, str) ==
    IF \E o \in kOpts : o[1] = Trim(str)
    THEN Parsed((CHOOSE o \in kOpts : o[1] = Trim(str))[2])
    ELSE Invalid

\* a ParseCellFault that reads the reply with the words of the commands
ParseCellFault_SendWords(str) ==
    Lookup({<<<<"NONE">>, "kNone">>, <<<<"OPEN">>, "kOpenCircuit">>,
            <<<<"SHORT">>, "kShortCircuit">>, <<<<"POL">>, "kPolarity">>}, str)

\* scpi::ParseCellFault
ParseCellFault(str) ==
    Lookup({<<<<"NONE">>, "kNone">>, <<<<"OPEN", "CIRCUIT">>, "kOpenCircuit">>,
            <<<<"SHORT", "CIRCUIT">>, "kShortCircuit">>,
            <<<<"POL", "ARITY">>, "kPolarity">>}, str)

\* scpi::ParseCellSenseRange
ParseCellSenseRange(str) ==
    Lookup({<<<<"AUTO">>, "kAuto">>, <<<<"LO", "W">>, "kLow">>,
            <<<<"HI", "GH">>, "kHigh">>}, str)

\* scpi::ParseCellOperatingMode
ParseCellOperatingMode(str) ==
    Lookup({<<<<"CV">>, "kConstantVoltage">>, <<<<"ILIM">>, "kCurrentLimited">>}, str)

\* scpi::ParseCellPrecisionMode
ParseCellPrecisionMode(str) ==
    Lookup({<<<<"NORM", "AL">>, "kNormal">>, <<<<"PREC", "ISION">>, "kHighPrecision">>,
            <<<<"FILT", "ER">>, "kNoiseRejection">>}, str)

ParseEnum(e, str) ==
    CASE e = "CellFault" -> ParseCellFault(str)
      [] e = "CellSenseRange" -> ParseCellSenseRange(str)
      [] e = "CellMode" -> ParseCellOperatingMode(str)
      [] e = "CellPrecisionMode" -> ParseCellPrecisionMode(str)

\* symbols of the replies offered to the parser of an enum
EnumSymbols(e) ==
    {" ", "x"} \cup
    CASE e = "CellFault" -> {"NONE", "OPEN", "CIRCUIT", "SHORT", "POL", "ARITY"}
      [] e = "CellSenseRange" -> {"AUTO", "LO", "W", "HI", "GH"}
      [] e = "CellMode" -> {"CV", "ILIM", "NONE"}
      [] e = "CellPrecisionMode" -> {"NORM", "AL", "PREC", "ISION", "FILT", "ER"}

\* the utilities as constructed: nothing applied, the rest of the program idle
UtilInit ==
    /\ kind = "udp" /\ dev_id_ = 0
    /\ driver_ = "none" /\ last = NoCall
    /\ DriverIdle
    /\ RestIdle

\* a setter builds the mnemonic of an enum value
BuildMnemonic ==
    /\ ufn = "none"
    /\ \E e \in SendEnums :
         \E v \in EnumValues(e) :
           /\ ufn' = "Mnemonic"
           /\ uarg' = [enum |-> e, value |-> v, text |-> <<>>]
           /\ uout' = Parsed(MnemonicOf(e, v))
    /\ UNCHANGED nonLibVars

\* a getter parses the mnemonic of a reply
ParseMnemonic ==
    /\ ufn = "none"
    /\ \E e \in Enums :
         \E str \in Texts(EnumSymbols(e), MaxWord) :
           /\ ufn' = "ParseMnemonic"
           /\ uarg' = [enum |-> e, text |-> str]
           /\ uout' = ParseEnum(e, str)
    /\ UNCHANGED nonLibVars

---------------------------------------------------------------------------
(* Scalar and array parsing.  The digit "1" stands for the decimal digits   *)
(* that are digits in every base, "9" for those that are no octal or binary *)
(* digits, "F" and "B" for the letters that are hexadecimal digits.         *)

\* longest text offered to the scalar parsers
MaxScalar == 4
\* longest text offered to the array parsers
MaxArray == 5

\* std::optional
Nullopt == [has |-> FALSE, value |-> <<>>]
Some(v) == [has |-> TRUE, value |-> v]

\* the end of the run of symbols of S that starts at position k (k - 1 when
\* t[k] is not in S)
RunEnd(t, k, S) ==
    CHOOSE j \in (k - 1)..Len(t) :
        /\ \A m \in k..j : t[m] \in S
        /\ j = Len(t) \/ t[j + 1] \notin S

DecimalDigits == {"0", "1", "9"}

\* fast_float::from_chars: the end of the longest prefix that is a number
\* (sign, digits, decimal point, digits, with at least one digit), or "nan"
\* or "inf" after the sign; 0 when there is none (ec is then not errc()).
\* The texts offered hold no exponent.
FloatEnd(t) ==
    LET s == IF t # <<>> /\ t[1] = "-" THEN 2 ELSE 1
        i1 == RunEnd(t, s, DecimalDigits)
        dot == i1 < Len(t) /\ t[i1 + 1] = "."
        i2 == IF dot THEN RunEnd(t, i1 + 2, DecimalDigits) ELSE i1
        digits == (i1 - s + 1) + (IF dot THEN i2 - (i1 + 1) ELSE 0)
    IN  IF digits > 0 THEN i2
        ELSE IF s <= Len(t) /\ t[s] \in {"nan", "inf"} THEN s
        ELSE 0

\* util::StrViewToFloat: the value is written as the text from_chars has read
StrViewToFloat(sv) ==
    LET t == Trim(sv)
    IN  IF t = <<>> THEN Nullopt
        ELSE IF FloatEnd(t) > 0 THEN Some(SubSeq(t, 1, FloatEnd(t)))
        ELSE Nullopt

\* util::StrViewToBool
StrViewToBool(sv) ==
    LET t == Trim(sv)
    IN  IF Len(t) # 1 THEN Nullopt
        ELSE IF t[1] = "0" THEN Some("false")
        ELSE IF t[1] = "1" THEN Some("true")
        ELSE Nullopt

\* the digits of a base
BaseDigits(base) ==
    CASE base = "16" -> {"0", "1", "9", "F", "B"}
      [] base = "10" -> {"0", "1", "9"}
      [] OTHER -> {"0", "1"}

\* the base a SCPI prefix announces
PrefixBase(t) ==
    IF Len(t) >= 2 /\ t[1] = "#" /\ t[2] \in {"H", "h"} THEN "16"
    ELSE IF Len(t) >= 2 /\ t[1] = "#" /\ t[2] \in {"Q", "q"} THEN "8"
    ELSE IF Len(t) >= 2 /\ t[1] = "#" /\ t[2] \in {"B", "b"} THEN "2"
    ELSE "10"

\* util::StrViewToInt: std::from_chars reads the longest prefix of digits of
\* the base and fails when there is none; the value is written as the base
\* and the digits read.  The texts offered hold no sign and no number out of
\* the range of T.
StrViewToInt(sv) ==
    LET t == Trim(sv)
        base == PrefixBase(t)
        d == IF base # "10" THEN SubSeq(t, 3, Len(t)) ELSE t
        e == RunEnd(d, 1, BaseDigits(base))
    IN  IF t = <<>> THEN Nullopt
        ELSE IF d = <<>> THEN Nullopt
        ELSE IF e > 0 THEN Some(<<base>> \o SubSeq(d, 1, e))
        ELSE Nullopt

\* scpi::ParseFloatResponse, ParseBoolResponse, ParseIntResponse
FromOptional(o) == IF o.has THEN Parsed(o.value) ELSE Invalid
ParseFloatResponse(text) == FromOptional(StrViewToFloat(text))
ParseBoolResponse(text) == FromOptional(StrViewToBool(text))
ParseIntResponse(text) == FromOptional(StrViewToInt(text))

\* the scalar parsers and the characters of the replies offered to each
ScalarParsers == {"ParseFloatResponse", "ParseBoolResponse", "ParseIntResponse"}
ScalarSymbols(fn) ==
    CASE fn = "ParseFloatResponse" -> {"1", ".", "-", " ", "V", "nan"}
      [] fn = "ParseBoolResponse" -> {"0", "1", " ", "V"}
      [] fn = "ParseIntResponse" -> {"#", "H", "Q", "B", "1", "9", "F", " "}
ApplyScalar(fn, text) ==
    CASE fn = "ParseFloatResponse" -> ParseFloatResponse(text)
      [] fn = "ParseBoolResponse" -> ParseBoolResponse(text)
      [] fn = "ParseIntResponse" -> ParseIntResponse(text)

\* .and_then(scpi::ParseFloatResponse) and the like on a reply
ParseScalarResponse ==
    /\ ufn = "none"
    /\ \E fn \in ScalarParsers :
         \E text \in Texts(ScalarSymbols(fn), MaxScalar) :
           /\ ufn' = fn
           /\ uarg' = [text |-> text]
           /\ uout' = ApplyScalar(fn, text)
    /\ UNCHANGED nonLibVars

\* std::views::split(resp, ','): the tokens between the commas; the empty
\* text has no token
RECURSIVE Split(_)
Split(t) ==
    IF t = <<>> THEN <<>>
    ELSE IF \A j \in 1..Len(t) : t[j] # "," THEN <<t>>
    ELSE LET c == CHOOSE j \in 1..Len(t) : t[j] = "," /\ \A k \in 1..(j - 1) : t[k] # ","
             rest == SubSeq(t, c + 1, Len(t))
         IN  <<SubSeq(t, 1, c - 1)>> \o (IF rest = <<>> THEN <<<<>>>> ELSE Split(rest))

\* the element parsers of the arrays
ElementParsers == {"float", "bool", "fault"}
ParseElement(p, token) ==
    CASE p = "float" -> FromOptional(StrViewToFloat(token))
      [] p = "bool" -> FromOptional(StrViewToBool(token))
      [] p = "fault" -> ParseCellFault(token)

\* the loop of the array parsers over the tokens from the k-th on, i being
\* k - 1: the code it ends with
RECURSIVE SplitLoop(_, _, _, _)
SplitLoop(p, tokens, k, n) ==
    IF k > Len(tokens)
    THEN IF k - 1 < n THEN "InvalidResponse" ELSE "Success"
    ELSE IF k - 1 >= n THEN "InvalidResponse"
    ELSE IF ParseElement(p, tokens[k]).code # "Success" THEN "InvalidResponse"
    ELSE SplitLoop(p, tokens, k + 1, n)

\* the elements the loop has stored in out when it ends with success
RECURSIVE Stored(_, _)
Stored(p, tokens) ==
    IF tokens = <<>> THEN <<>>
    ELSE <<ParseElement(p, Head(tokens)).value>> \o Stored(p, Tail(tokens))

\* scpi::SplitRespFloats, SplitRespBools and ParseRespMnemonics into kLen = n
\* elements
SplitArray(p, reply, n) ==
    IF SplitLoop(p, Split(Trim(reply)), 1, n) = "Success"
    THEN Parsed(Stored(p, Split(Trim(reply))))
    ELSE Invalid

\* the lengths of the arrays and the characters of the replies offered
ArrayLens == {2, 3, 4}
ArraySymbols(p) ==
    CASE p = "fault" -> {"NONE", ",", " ", "V"}
      [] OTHER -> {"1", ",", " ", "V"}

\* .and_then(scpi::ParseRespFloatArray<kLen>) and the like on a reply
ParseArrayResponse ==
    /\ ufn = "none"
    /\ \E p \in ElementParsers, n \in ArrayLens :
         \E text \in Texts(ArraySymbols(p), MaxArray) :
           /\ ufn' = "SplitArray"
           /\ uarg' = [text |-> text, parser |-> p, n |-> n]
           /\ uout' = SplitArray(p, text, n)
    /\ UNCHANGED nonLibVars

---------------------------------------------------------------------------
(* Quoted strings.  "a" stands for every character that is no quote, no    *)
(* comma and no white space.                                               *)

\* longest text offered to the string parsers
MaxQuoted == 6
QuoteSymbols == {"\"", "'", "a", ",", " "}
Delims == {"\"", "'"}

\* the loop of ParseQuotedString over str, the text between the two
\* delimiters, from position i on with acc collected: the string, or nullopt
\* at a delimiter that is not doubled
RECURSIVE QuotedLoop(_, _, _, _)
QuotedLoop(str, delim, i, acc) ==
    IF i > Len(str) THEN Some(acc)
    ELSE IF str[i] # delim THEN QuotedLoop(str, delim, i + 1, Append(acc, str[i]))
    ELSE IF i < Len(str) /\ str[i + 1] = delim
         THEN QuotedLoop(str, delim, i + 2, Append(acc, str[i]))
    ELSE Nullopt

\* scpi::ParseQuotedString
ParseQuotedString(s) ==
    LET str == Trim(s)
    IN  IF Len(str) < 2 THEN Nullopt
        ELSE IF str[1] \notin Delims THEN Nullopt
        ELSE IF str[Len(str)] # str[1] THEN Nullopt
        ELSE QuotedLoop(SubSeq(str, 2, Len(str) - 1), str[1], 1, <<>>)

\* scpi::ParseStringResponse
ParseStringResponse(str) == FromOptional(ParseQuotedString(Trim(str)))

\* the loop of ParseQuotedStringUntil over str, the text after the opening
\* delimiter: the string collected and the suffix, which stays the empty
\* view of the caller when the loop runs to the end of str
RECURSIVE UntilLoop(_, _, _, _)
UntilLoop(str, delim, i, acc) ==
    IF i > Len(str) THEN [has |-> TRUE, value |-> acc, suffix |-> <<>>]
    ELSE IF str[i] # delim THEN UntilLoop(str, delim, i + 1, Append(acc, str[i]))
    ELSE IF i < Len(str)
         THEN IF str[i + 1] = delim
              THEN UntilLoop(str, delim, i + 2, Append(acc, str[i]))
              ELSE [has |-> TRUE, value |-> acc, suffix |-> SubSeq(str, i + 1, Len(str))]
    ELSE [has |-> TRUE, value |-> acc, suffix |-> <<>>]

\* scpi::ParseQuotedStringUntil
ParseQuotedStringUntil(s) ==
    LET str == Trim(s)
    IN  IF Len(str) < 2 THEN [has |-> FALSE, value |-> <<>>, suffix |-> <<>>]
        ELSE IF str[1] \notin Delims THEN [has |-> FALSE, value |-> <<>>, suffix |-> <<>>]
        ELSE UntilLoop(Tail(str), str[1], 1, <<>>)

\* the loop of scpi::ParseStringArrayResponse<kLen> from element i on
RECURSIVE StringArrayLoop(_, _, _, _)
StringArrayLoop(str, i, kLen, res) ==
    IF i >= kLen THEN Parsed(res)
    ELSE LET s == ParseQuotedStringUntil(str)
             suffix == Trim(s.suffix)
         IN  IF ~s.has THEN Invalid
             ELSE IF i < kLen - 1
                  THEN IF suffix = <<>> \/ suffix[1] # "," THEN Invalid
                       ELSE StringArrayLoop(Tail(suffix), i + 1, kLen, Append(res, s.value))
             ELSE StringArrayLoop(str, i + 1, kLen, Append(res, s.value))

\* scpi::ParseStringArrayResponse
ParseStringArrayResponse(str, kLen) == StringArrayLoop(str, 0, kLen, <<>>)

\* the two strings of GetIPAddress and of GetModelInfo
kStrings == 2

\* .and_then(scpi::ParseStringResponse) on a reply (GetCalibrationDate,
\* GetModelId)
ParseStringReply ==
    /\ ufn = "none"
    /\ \E text \in Texts(QuoteSymbols, MaxQuoted) :
         /\ ufn' = "ParseStringResponse"
         /\ uarg' = [text |-> text]
         /\ uout' = ParseStringResponse(text)
    /\ UNCHANGED nonLibVars

\* .and_then(scpi::ParseStringArrayResponse<2>) on a reply (GetIPAddress,
\* GetModelInfo)
ParseStringArrayReply ==
    /\ ufn = "none"
    /\ \E text \in Texts(QuoteSymbols, MaxQuoted) :
         /\ ufn' = "ParseStringArrayResponse"
         /\ uarg' = [text |-> text]
         /\ uout' = ParseStringArrayResponse(text, kStrings)
    /\ UNCHANGED nonLibVars

---------------------------------------------------------------------------
(* The C wrappers that hand strings and discovery results to the caller.    *)
(* The caller's memory is a sequence of characters per char array; "?" is   *)
(* what it holds before the call and "NUL" the null character.  A call is   *)
(* recorded in ufn, uarg and uout like the calls of the text utilities.     *)

\* the length given to the char arrays of the structs (32, 128 or 256 in
\* CInterface.h)
FieldLen == 3
\* longest string a query or a scan returns
MaxStr == 3
\* longest buffer the caller passes
MaxBuf == 4
\* most units a scan finds, and the largest capacity the caller passes
MaxFound == 3
MaxCap == 3

Unset(n) == [j \in 1..n |-> "?"]
Zeroed(n) == [j \in 1..n |-> "NUL"]
Strings == Texts({"a", "b"}, MaxStr)

\* std::string::copy(dest, count) into a char array: the first count
\* characters of str, or all of str, over the front of dest
Copy(str, dest, count) ==
    LET m == IF Len(str) < count THEN Len(str) ELSE count
    IN  [j \in 1..Len(dest) |-> IF j <= m THEN str[j] ELSE dest[j]]

\* a zeroed char array of a struct filled by copy(out, sizeof(out) - 1)
Field(str) == Copy(str, Zeroed(FieldLen), FieldLen - 1)

\* what the query of the client returns to WrapGet: an error, or its value
\* (the strings of the value and its number)
QueryErrors == {"NotConnected", "InvalidResponse", "AllocationFailed"}
Failed(e) == [code |-> e, strs |-> <<>>, num |-> 0]
Got(strs, num) == [code |-> "Success", strs |-> strs, num |-> num]

\* WrapGet: the code returned for a handle and the result of the query
WrapGet(handle, res) == IF ~handle THEN "InvalidArgument" ELSE res.code

\* what a wrapper leaves to the caller: the code returned, the char arrays
\* and the number (err_code_out or *count) and ids it has written
Left(r, mem, num, ids) == [ret |-> r, mem |-> mem, num |-> num, ids |-> ids]

\* AbsScpiClient_GetCalibrationDate(handle, buf, len), buf holding mem
GetCalibrationDate(handle, buf, len, mem, res) ==
    IF ~buf \/ len = 0 THEN Left("InvalidArgument", mem, 0, <<>>)
    ELSE IF WrapGet(handle, res) # "Success" THEN Left(WrapGet(handle, res), mem, 0, <<>>)
    ELSE IF len < Len(res.strs[1]) + 1 THEN Left("BufferTooSmall", mem, 0, <<>>)
    ELSE Left("Success",
              <<[Copy(res.strs[1], mem[1], Len(res.strs[1]))
                    EXCEPT ![Len(res.strs[1]) + 1] = "NUL"]>>, 0, <<>>)

\* a GetNextError that copies what fits into a buffer that is too small
GetNextError_Partial(handle, out, buf, len, mem, num, res) ==
    IF ~out \/ ~buf \/ len = 0 THEN Left("InvalidArgument", mem, num, <<>>)
    ELSE IF WrapGet(handle, res) # "Success" THEN Left(WrapGet(handle, res), mem, num, <<>>)
    ELSE IF len < Len(res.strs[1]) + 1
         THEN Left("BufferTooSmall", <<Copy(res.strs[1], mem[1], len)>>, res.num, <<>>)
    ELSE Left("Success",
              <<[Copy(res.strs[1], mem[1], Len(res.strs[1]))
                    EXCEPT ![Len(res.strs[1]) + 1] = "NUL"]>>, res.num, <<>>)

\* AbsScpiClient_GetNextError(handle, err_code_out, msg_buf, msg_buf_len),
\* msg_buf holding mem and *err_code_out holding num
GetNextError(handle, out, buf, len, mem, num, res) ==
    IF ~out \/ ~buf \/ len = 0 THEN Left("InvalidArgument", mem, num, <<>>)
    ELSE IF WrapGet(handle, res) # "Success" THEN Left(WrapGet(handle, res), mem, num, <<>>)
    ELSE IF len < Len(res.strs[1]) + 1 THEN Left("BufferTooSmall", mem, res.num, <<>>)
    ELSE Left("Success",
              <<[Copy(res.strs[1], mem[1], Len(res.strs[1]))
                    EXCEPT ![Len(res.strs[1]) + 1] = "NUL"]>>, res.num, <<>>)

\* AbsScpiClient_GetDeviceInfo(handle, info_out) and
\* AbsScpiClient_GetIPAddress(handle, addr_out), the struct holding mem
GetStruct(handle, out, mem, res) ==
    IF ~out THEN Left("InvalidArgument", mem, 0, <<>>)
    ELSE IF WrapGet(handle, res) # "Success" THEN Left(WrapGet(handle, res), mem, 0, <<>>)
    ELSE Left("Success", [j \in 1..Len(mem) |-> Field(res.strs[j])], 0, <<>>)

\* the wrappers that return strings, the number of strings of each and the
\* error numbers offered
StringWrappers == {"GetCalibrationDate", "GetNextError", "GetDeviceInfo", "GetIPAddress"}
StringCount(fn) ==
    CASE fn = "GetDeviceInfo" -> 3
      [] fn = "GetIPAddress" -> 2
      [] OTHER -> 1
ErrCodes == {0, -100}
UnsetNum == 1

\* the values the query of a wrapper returns
QueryValues(fn) ==
    CASE fn \in {"GetCalibrationDate", "GetNextError"} ->
            {Got(<<s>>, n) : s \in Strings, n \in (IF fn = "GetNextError" THEN ErrCodes ELSE {0})}
      [] OTHER ->
            {Got(strs, 0) : strs \in [1..StringCount(fn) -> {<<>>, <<"a">>, <<"a", "b">>, <<"a", "b", "a">>}]}

\* a call of a wrapper that returns strings
CallStringWrapper ==
    /\ ufn = "none"
    /\ \E fn \in StringWrappers, handle \in BOOLEAN, out \in BOOLEAN, buf \in BOOLEAN,
          len \in 0..MaxBuf :
         \E res \in QueryValues(fn) \cup {Failed(e) : e \in QueryErrors} :
           LET n == IF fn \in {"GetDeviceInfo", "GetIPAddress"} THEN FieldLen ELSE len
               mem == [j \in 1..StringCount(fn) |-> Unset(n)]
           IN  /\ fn \in {"GetDeviceInfo", "GetIPAddress"} => buf /\ len = 0
               /\ fn = "GetCalibrationDate" => out
               /\ ufn' = fn
               /\ uarg' = [handle |-> handle, out |-> out, buf |-> buf, len |-> len,
                           mem |-> mem, res |-> res]
               /\ uout' = CASE fn = "GetCalibrationDate" ->
                                   GetCalibrationDate(handle, buf, len, mem, res)
                            [] fn = "GetNextError" ->
                                   GetNextError(handle, out, buf, len, mem, UnsetNum, res)
                            [] OTHER -> GetStruct(handle, out, mem, res)
    /\ UNCHANGED nonLibVars

\* the units a scan finds: unit k has the id k, an address of its own and a
\* serial number of k characters (MaxStr at most)
Digit(k) == CASE k = 1 -> "1" [] k = 2 -> "2" [] k = 3 -> "3" [] OTHER -> "4"
Unit(k) == [id |-> k, ip |-> <<Digit(k)>>,
            serial |-> [j \in 1..(IF k < MaxStr THEN k ELSE MaxStr) |-> "s"]]

\* the lists a scan returns: the units in the order of their replies
\* (multicast) or of their ids (serial)
Orders == {s \in UNION {[1..n -> 1..MaxFound] : n \in 0..MaxFound} :
              \A i, j \in 1..Len(s) : i # j => s[i] # s[j]}
ScanResults(fn) ==
    {[code |-> "Success", devs |-> [i \in 1..Len(s) |-> Unit(s[i])]] :
        s \in {o \in Orders : fn = "SerialDiscovery" =>
                                 \A i, j \in 1..Len(o) : i < j => o[i] < o[j]}}
ScanErrors == {"InvalidArgument", "SocketError", "AllocationFailed"}
ScanFailed(e) == [code |-> e, devs |-> <<>>]

\* an element of results_out before the call, and one written by the call:
\* results_out[i] = {}, then the id (serial) or the address (multicast) and
\* the serial number
UnsetEntry == [id |-> 255, ip |-> Unset(FieldLen), serial |-> Unset(FieldLen)]
Entry(fn, dev) ==
    [id |-> IF fn = "SerialDiscovery" THEN dev.id ELSE 0,
     ip |-> IF fn = "SerialDiscovery" THEN Zeroed(FieldLen) ELSE Field(dev.ip),
     serial |-> Field(dev.serial)]


\* a discovery wrapper that keeps the last units found when the array is
\* too small
Discovery_LastN(fn, arg, out, cnt, count, results, res) ==
    IF ~arg \/ ~out \/ ~cnt \/ count = 0
    THEN [ret |-> "InvalidArgument", results |-> results, count |-> count]
    ELSE IF res.code # "Success"
    THEN [ret |-> res.code, results |-> results, count |-> count]
    ELSE [ret |-> IF Len(res.devs) > count THEN "BufferTooSmall" ELSE "Success",
          results |-> [i \in 1..Len(results) |->
                          IF i <= Min(count, Len(res.devs))
                          THEN Entry(fn, res.devs[Len(res.devs) - Min(count, Len(res.devs)) + i])
                          ELSE results[i]],
          count |-> Min(count, Len(res.devs))]

\* AbsScpiClient_MulticastDiscovery(interface_ip, results_out, count) and
\* AbsScpiClient_SerialDiscovery(port, first_id, last_id, results_out,
\* count): arg, out and cnt tell the pointers that are not null, count is
\* *count and results the array, res what the scan returns
Discovery(fn, arg, out, cnt, count, results, res) ==
    IF ~arg \/ ~out \/ ~cnt \/ count = 0
    THEN [ret |-> "InvalidArgument", results |-> results, count |-> count]
    ELSE IF res.code # "Success"
    THEN [ret |-> res.code, results |-> results, count |-> count]
    ELSE [ret |-> IF Len(res.devs) > count THEN "BufferTooSmall" ELSE "Success",
          results |-> [i \in 1..Len(results) |->
                          IF i <= Min(count, Len(res.devs)) THEN Entry(fn, res.devs[i])
                          ELSE results[i]],
          count |-> Min(count, Len(res.devs))]

DiscoveryWrappers == {"MulticastDiscovery", "SerialDiscovery"}

\* a call of a discovery wrapper with an array of *count elements
CallDiscovery ==
    /\ ufn = "none"
    /\ \E fn \in DiscoveryWrappers, arg \in BOOLEAN, out \in BOOLEAN, cnt \in BOOLEAN,
          count \in 0..MaxCap :
         \E res \in ScanResults(fn) \cup {ScanFailed(e) : e \in ScanErrors} :
           LET results == [i \in 1..count |-> UnsetEntry]
           IN  /\ ufn' = fn
               /\ uarg' = [arg |-> arg, out |-> out, cnt |-> cnt, count |-> count,
                           results |-> results, res |-> res]
               /\ uout' = Discovery(fn, arg, out, cnt, count, results, res)
    /\ UNCHANGED nonLibVars

---------------------------------------------------------------------------
(* One thread that calls queries of one client, one after the other, on a   *)
(* serial, TCP or UDP driver.  The device answers every command that        *)
(* reaches it; the reply is first on its way (net) and then at the host,    *)
(* unread (replies).  A reply names the command it answers.                 *)

\* most queries the thread calls
MaxQueries == 3

\* the one thread that calls: the first of the threads
Caller == CHOOSE t \in Threads : \A u \in Threads : t <= u

\* what the steps of the thread and of the replies leave alone
queryRest == <<kind, dev_id_, clientVars, id_given, is_open, pc, cur, ec, timeout_, expiry,
               wait, io, elapsed, ioOutcome, result, wire, scanVars, tcmd, input_buffer_,
               sent, returned, libVars>>

\* a client with an open driver of one of the three kinds
QueryInit ==
    /\ kind \in {"serial", "tcp", "udp"} /\ dev_id_ = 0
    /\ driver_ = "drv" /\ last = NoCall
    /\ id_given = -1 /\ is_open = TRUE /\ pc = "idle" /\ cur = "none" /\ ec = "success"
    /\ timeout_ = FALSE /\ expiry = "inf" /\ wait = 0 /\ io = "none"
    /\ ready = <<>> /\ stopped = FALSE /\ elapsed = FALSE
    /\ ioOutcome = "none" /\ result = "none" /\ wire = <<>> /\ hung = FALSE
    /\ RestIdle

\* the codes Write returns: the serial Write blocks and has no timeout
WriteCodes(k) ==
    IF k = "serial" THEN {"Success", "SendFailed"}
    ELSE {"Success", "SendFailed", "SendTimedOut"}

\* SendAndRecv up to the return of driver_->Write(buf, kWriteTimeoutMs).  On
\* a TcpDriver whose io_service has stopped the loop of Write does not end;
\* a handler of the timer left queued by the call before runs first and
\* cancels what is pending.  A command that was written reaches the device,
\* which sends its reply.
QueryWrite ==
    /\ tpc[Caller] = "idle" /\ written < MaxQueries /\ ~hung
    /\ IF kind = "tcp" /\ stopped
       THEN /\ hung' = TRUE
            /\ UNCHANGED <<tpc, tgot, written, net, ready, stopped>>
       ELSE \E w \in WriteCodes(kind) :
              /\ ready' = <<>>
              /\ IF w = "Success"
                 THEN /\ written' = written + 1
                      /\ net' = Append(net, [code |-> "Success", seq |-> written + 1,
                                             to |-> Caller, cmd |-> "*IDN?"])
                      /\ tpc' = [tpc EXCEPT ![Caller] = "written"]
                      /\ UNCHANGED tgot
                 ELSE /\ tgot' = [tgot EXCEPT ![Caller] = [NoReply EXCEPT !.code = w]]
                      /\ tpc' = [tpc EXCEPT ![Caller] = "done"]
                      /\ UNCHANGED <<written, net>>
              /\ UNCHANGED <<hung, stopped>>
    /\ UNCHANGED <<queryRest, replies, taken>>

\* a reply reaches the host
ReplyArrives ==
    /\ net # <<>>
    /\ replies' = Append(replies, Head(net))
    /\ net' = Tail(net)
    /\ UNCHANGED <<queryRest, tpc, tgot, written, taken, ready, stopped, hung>>

\* return driver_->ReadLine(kReadTimeoutMs).  The driver reads from its one
\* port or socket and returns the oldest unread line (datagram); on a
\* TcpDriver the deadline may pass as the line is returned (late), which
\* leaves the handler of the timer queued.  With nothing unread, a queued
\* handler of the timer cancels the read (ReadTimedOut), or the read fails,
\* or the deadline passes: ReadTimedOut, after which the io_service of a
\* TcpDriver has stopped.
QueryRead ==
    /\ tpc[Caller] = "written"
    /\ \E failed \in BOOLEAN, late \in BOOLEAN :
         /\ (replies # <<>> \/ ready # <<>>) => ~failed
         /\ (replies = <<>> \/ ready # <<>> \/ kind # "tcp") => ~late
         /\ IF replies # <<>>
            THEN /\ tgot' = [tgot EXCEPT ![Caller] = Head(replies)]
                 /\ replies' = Tail(replies)
                 /\ taken' = taken + 1
                 /\ ready' = (IF late THEN StaleTimer ELSE <<>>)
                 /\ UNCHANGED stopped
            ELSE /\ tgot' = [tgot EXCEPT ![Caller] =
                                [NoReply EXCEPT !.code = IF failed THEN "ReadFailed"
                                                         ELSE "ReadTimedOut"]]
                 /\ ready' = <<>>
                 /\ stopped' = (kind = "tcp" /\ ready = <<>> /\ ~failed)
                 /\ UNCHANGED <<replies, taken>>
    /\ tpc' = [tpc EXCEPT ![Caller] = "done"]
    /\ UNCHANGED <<queryRest, written, net, hung>>

\* the caller takes the result of its query
QueryReturn ==
    /\ tpc[Caller] = "done"
    /\ tpc' = [tpc EXCEPT ![Caller] = "idle"]
    /\ tgot' = [tgot EXCEPT ![Caller] = NoReply]
    /\ UNCHANGED <<queryRest, replies, written, taken, net, ready, stopped, hung>>

QueryNext ==
    \/ QueryWrite
    \/ ReplyArrives
    \/ QueryRead
    \/ QueryReturn

QuerySpec == QueryInit /\ [][QueryNext]_vars

---------------------------------------------------------------------------
(* The C functions that open a connection (CInterface.cpp): each makes a   *)
(* new driver, opens it and hands it to the client.                        *)

\* the functions, the driver each makes and the codes its Open or Connect
\* can return on a driver just made
OpenWrappers == {
    [fn |-> "AbsScpiClient_OpenUdp", kind |-> "udp"],
    [fn |-> "AbsScpiClient_OpenTcp", kind |-> "tcp"],
    [fn |-> "AbsScpiClient_OpenSerial", kind |-> "serial"],
    [fn |-> "AbsScpiClient_OpenUdpMulticast", kind |-> "mcast"] }

ConnectCodes == {"Success", "InvalidIPAddress", "ConnectionFailed", "ConnectionTimedOut"}

OpenCodes(k) == IF k = "tcp" THEN ConnectCodes
                ELSE {OpenResult(k, fail).ret : fail \in OpenFailures}

\* an Open function that leaves the client's driver alone until the new one
\* is open
AbsScpiClient_Open_KeepsOld(w, handle, null, alloc, code, id) ==
    IF ~handle \/ null
    THEN [ret |-> "InvalidArgument", driver |-> driver_, kind |-> kind, id |-> dev_id_]
    ELSE IF alloc
    THEN [ret |-> "AllocationFailed", driver |-> driver_, kind |-> kind, id |-> dev_id_]
    ELSE IF code = "Success"
    THEN [ret |-> code, driver |-> "drv", kind |-> w.kind,
          id |-> IF w.kind = "serial" THEN SetDeviceIDValue(id) ELSE 0]
    ELSE [ret |-> code, driver |-> driver_, kind |-> kind, id |-> dev_id_]

\* AbsScpiClient_OpenUdp / OpenTcp / OpenSerial / OpenUdpMulticast: handle
\* and null say whether the handle is valid and whether the address or port
\* string is null, alloc whether make_shared throws bad_alloc, code is what
\* the new driver's Open or Connect returns; the result is the code returned
\* and the driver the client has afterwards
AbsScpiClient_Open(w, handle, null, alloc, code, id) ==
    IF ~handle \/ null
    THEN [ret |-> "InvalidArgument", driver |-> driver_, kind |-> kind, id |-> dev_id_]
    ELSE IF alloc
    THEN [ret |-> "AllocationFailed", driver |-> "none", kind |-> kind, id |-> dev_id_]
    ELSE IF code = "Success"
    THEN [ret |-> code, driver |-> "drv", kind |-> w.kind,
          id |-> IF w.kind = "serial" THEN SetDeviceIDValue(id) ELSE 0]
    ELSE [ret |-> code, driver |-> "none", kind |-> kind, id |-> dev_id_]

\* the client AbsScpiClient_Init has made: no driver yet
OpenInit ==
    /\ kind \in Kinds
    /\ driver_ = "none"
    /\ dev_id_ = 0
    /\ last = NoCall
    /\ DriverIdle
    /\ RestIdle

CallOpen ==
    /\ last = NoCall
    /\ \E w \in OpenWrappers, handle \in BOOLEAN, null \in BOOLEAN, alloc \in BOOLEAN :
         \E code \in OpenCodes(w.kind), id \in Ids :
           LET o == AbsScpiClient_Open(w, handle, null, alloc, code, id)
           IN  /\ driver_' = o.driver
               /\ kind' = o.kind
               /\ dev_id_' = o.id
               /\ last' = Called(w.fn, "open", 0,
                                 [handle |-> handle, null |-> null, before |-> driver_],
                                 Outcome(o.ret, <<>>, <<>>))
    /\ UNCHANGED <<driverVars, restVars>>

OpenNext ==
    \/ CallOpen
    \/ CallPlainCommand
    \/ CallPlainQuery
    \/ TakeResult

OpenSpec == OpenInit /\ [][OpenNext]_vars

---------------------------------------------------------------------------
\* the caller has taken the result: the utilities wait for the next call
UtilReturn ==
    /\ ufn # "none"
    /\ ufn' = "none" /\ uarg' = NoArg /\ uout' = NoOut
    /\ UNCHANGED nonLibVars

UtilNext ==
    \/ BuildMnemonic
    \/ ParseMnemonic
    \/ ParseScalarResponse
    \/ ParseArrayResponse
    \/ ParseStringReply
    \/ ParseStringArrayReply
    \/ UtilReturn

UtilSpec == UtilInit /\ [][UtilNext]_vars


\* the calls of the C wrappers
WrapNext ==
    \/ CallStringWrapper
    \/ CallDiscovery
    \/ UtilReturn

WrapSpec == UtilInit /\ [][WrapNext]_vars

---------------------------------------------------------------------------
(* Claims about the text utilities *)

\* the words of the commands and of the replies of the three enums whose
\* two tables differ
SentAs(e, v) ==
    CASE e = "CellFault" /\ v = "kOpenCircuit" -> "OPEN"
      [] e = "CellSenseRange" /\ v = "kLow" -> "LO"
      [] e = "CellSenseRange" /\ v = "kHigh" -> "HI"
      [] e = "CellPrecisionMode" /\ v = "kHighPrecision" -> "PREC"
      [] e = "CellPrecisionMode" /\ v = "kNoiseRejection" -> "FILT"
      [] OTHER -> ""
RepliedAs(e, v) ==
    CASE e = "CellFault" /\ v = "kOpenCircuit" -> <<"OPEN", "CIRCUIT">>
      [] e = "CellSenseRange" /\ v = "kLow" -> <<"LO", "W">>
      [] e = "CellSenseRange" /\ v = "kHigh" -> <<"HI", "GH">>
      [] e = "CellPrecisionMode" /\ v = "kHighPrecision" -> <<"PREC", "ISION">>
      [] e = "CellPrecisionMode" /\ v = "kNoiseRejection" -> <<"FILT", "ER">>
      [] OTHER -> <<>>

\* the words of the replies of an enum: those that differ from the words of
\* the commands, and the words that are the same in both tables
ReplyWords(e) ==
    ({RepliedAs(e, v) : v \in EnumValues(e)} \ {<<>>})
    \cup CASE e = "CellFault" -> {<<"NONE">>, <<"SHORT", "CIRCUIT">>, <<"POL", "ARITY">>}
           [] e = "CellSenseRange" -> {<<"AUTO">>}
           [] e = "CellMode" -> {<<"CV">>, <<"ILIM">>}
           [] e = "CellPrecisionMode" -> {<<"NORM", "AL">>}

\* C23: the mnemonic built for a value of an enum is the word of that enum's
\* commands (Open is sent as OPEN), a reply is parsed with the words of that
\* enum's replies (OPENCIRCUIT parses to Open, and so for the other values
\* whose two words differ), each value has a word of its own, and a reply
\* that is no word of the enum's replies yields InvalidResponse.
C23_TablesUsed ==
    /\ ufn = "Mnemonic" =>
         /\ SentAs(uarg.enum, uarg.value) # "" => uout.value = SentAs(uarg.enum, uarg.value)
         /\ uarg.value # "bad" => uout.value # ""
         /\ \A v \in EnumValues(uarg.enum) \ {"bad", uarg.value} :
                MnemonicOf(uarg.enum, v) # uout.value
    /\ ufn = "ParseMnemonic" =>
         /\ uout.code = (IF Trim(uarg.text) \in ReplyWords(uarg.enum)
                         THEN "Success" ELSE "InvalidResponse")
         /\ uout.code = "Success" =>
              /\ uout.value \in EnumValues(uarg.enum) \ {"bad"}
              /\ RepliedAs(uarg.enum, uout.value) # <<>> =>
                     Trim(uarg.text) = RepliedAs(uarg.enum, uout.value)
         /\ \A v \in EnumValues(uarg.enum) :
              (RepliedAs(uarg.enum, v) # <<>> /\ Trim(uarg.text) = RepliedAs(uarg.enum, v))
                  => uout.value = v

\* a reply of OPENCIRCUIT between blanks has been parsed to Open
C23_Witness ==
    /\ ufn = "ParseMnemonic" /\ uarg.enum = "CellFault"
    /\ uarg.text = <<" ", "OPEN", "CIRCUIT">>
    /\ uout = Parsed("kOpenCircuit")

\* a whole token that is a decimal number: a sign or none, digits with at
\* most one decimal point, at least one digit
IsDecimal(t) ==
    LET u == IF t # <<>> /\ t[1] = "-" THEN Tail(t) ELSE t
    IN  /\ \A j \in 1..Len(u) : u[j] \in DecimalDigits \cup {"."}
        /\ Cardinality({j \in 1..Len(u) : u[j] = "."}) <= 1
        /\ \E j \in 1..Len(u) : u[j] \in DecimalDigits

\* a whole token that is a decimal integer, or #H, #Q or #B and digits of
\* that base
IsInteger(t) ==
    LET d == IF PrefixBase(t) # "10" THEN SubSeq(t, 3, Len(t)) ELSE t
    IN  d # <<>> /\ \A j \in 1..Len(d) : d[j] \in BaseDigits(PrefixBase(t))

\* the whole trimmed token is a value of the kind the parser is for
WholeValue(p, token) ==
    CASE p \in {"float", "ParseFloatResponse"} -> IsDecimal(Trim(token))
      [] p \in {"bool", "ParseBoolResponse"} -> Trim(token) \in {<<"0">>, <<"1">>}
      [] p = "ParseIntResponse" -> IsInteger(Trim(token))
      [] p = "fault" -> Trim(token) \in ReplyWords("CellFault")

\* the tokens of the reply of the last array parse
ReplyTokens == Split(Trim(uarg.text))

\* C24 as stated: parsing a reply into an array of n elements succeeds if and
\* only if the reply has exactly n tokens and each token is a valid value of
\* the element kind, and yields InvalidResponse otherwise.
C24_AsStated ==
    ufn = "SplitArray" =>
        /\ uout.code = "Success" <=>
             /\ Len(ReplyTokens) = uarg.n
             /\ \A j \in 1..Len(ReplyTokens) : WholeValue(uarg.parser, ReplyTokens[j])
        /\ uout.code \in {"Success", "InvalidResponse"}

\* the same with the tokens the element parser accepts: exactly n of them,
\* whatever follows the number in a token of a float array
C24_ExactlyN ==
    ufn = "SplitArray" =>
        /\ uout.code = "Success" <=>
             /\ Len(ReplyTokens) = uarg.n
             /\ \A j \in 1..Len(ReplyTokens) :
                    ParseElement(uarg.parser, ReplyTokens[j]).code = "Success"
        /\ uout.code = "Success" => Len(uout.value) = uarg.n
        /\ uout.code \in {"Success", "InvalidResponse"}

\* C26 as stated: a scalar parser accepts a reply if and only if the whole
\* trimmed reply is a value of its kind ("0" or "1"; a decimal number; a
\* decimal integer or a #H, #Q or #B integer), and yields InvalidResponse
\* otherwise.
C26_AsStated ==
    ufn \in ScalarParsers =>
        /\ uout.code = "Success" <=> WholeValue(ufn, uarg.text)
        /\ uout.code \in {"Success", "InvalidResponse"}

\* the booleans are parsed as stated, and what the float and integer parsers
\* reject is no value of their kind
C26_BoolsExact ==
    ufn \in ScalarParsers =>
        /\ ufn = "ParseBoolResponse" => (uout.code = "Success" <=> WholeValue(ufn, uarg.text))
        /\ WholeValue(ufn, uarg.text) => uout.code = "Success"
        /\ uout.code \in {"Success", "InvalidResponse"}


\* a body between two delimiters d in which every run of d has an even
\* length, that is, every d is doubled
Doubled(b, d) ==
    \A j \in 1..Len(b) :
        (b[j] = d /\ (j = 1 \/ b[j - 1] # d)) => (RunEnd(b, j, {d}) - j + 1) % 2 = 0

\* a whole text that is a quoted string: a delimiter, a body in which the
\* delimiter is doubled, the same delimiter
WellQuoted(t) ==
    /\ Len(t) >= 2 /\ t[1] \in Delims /\ t[Len(t)] = t[1]
    /\ Doubled(SubSeq(t, 2, Len(t) - 1), t[1])

\* the body with one delimiter of each pair taken out
RECURSIVE Undoubled(_, _)
Undoubled(b, d) ==
    IF b = <<>> THEN <<>>
    ELSE IF Head(b) = d /\ Len(b) >= 2 THEN <<d>> \o Undoubled(Tail(Tail(b)), d)
    ELSE <<Head(b)>> \o Undoubled(Tail(b), d)
QuotedValue(t) == Undoubled(SubSeq(t, 2, Len(t) - 1), t[1])

\* the places of a reply where it falls into two quoted strings
Halves(t) ==
    {c \in 1..Len(t) :
        /\ t[c] = ","
        /\ WellQuoted(Trim(SubSeq(t, 1, c - 1)))
        /\ WellQuoted(Trim(SubSeq(t, c + 1, Len(t))))}

\* C25: a single-string reply is parsed with success exactly when the
\* trimmed reply is a quoted string ('...' or "..." with the delimiter
\* doubled inside), a two-string reply exactly when it is two such strings
\* with a comma between them; the values are the bodies with the doubled
\* delimiters undoubled; every other reply yields InvalidResponse.
C25_AsStated ==
    /\ ufn = "ParseStringResponse" =>
         /\ uout.code = "Success" <=> WellQuoted(Trim(uarg.text))
         /\ uout.code = "Success" => uout.value = QuotedValue(Trim(uarg.text))
         /\ uout.code \in {"Success", "InvalidResponse"}
    /\ ufn = "ParseStringArrayResponse" =>
         /\ uout.code = "Success" <=> Halves(uarg.text) # {}
         /\ uout.code = "Success" =>
              \E c \in Halves(uarg.text) :
                  uout.value = <<QuotedValue(Trim(SubSeq(uarg.text, 1, c - 1))),
                                 QuotedValue(Trim(SubSeq(uarg.text, c + 1, Len(uarg.text))))>>
         /\ uout.code \in {"Success", "InvalidResponse"}

\* the same for the single strings, and for the two-string replies: two
\* quoted strings with a comma between them are parsed to their values
C25_SingleExact ==
    /\ ufn = "ParseStringResponse" =>
         /\ uout.code = "Success" <=> WellQuoted(Trim(uarg.text))
         /\ uout.code = "Success" => uout.value = QuotedValue(Trim(uarg.text))
         /\ uout.code \in {"Success", "InvalidResponse"}
    /\ ufn = "ParseStringArrayResponse" =>
         /\ Halves(uarg.text) # {} =>
              /\ uout.code = "Success"
              /\ \E c \in Halves(uarg.text) :
                  uout.value = <<QuotedValue(Trim(SubSeq(uarg.text, 1, c - 1))),
                                 QuotedValue(Trim(SubSeq(uarg.text, c + 1, Len(uarg.text))))>>
         /\ uout.code \in {"Success", "InvalidResponse"}
---------------------------------------------------------------------------
(* Claims about the C wrappers *)

\* the string a char array holds: its characters before the first NUL
CString(a) ==
    IF \A j \in 1..Len(a) : a[j] # "NUL" THEN a
    ELSE SubSeq(a, 1, (CHOOSE j \in 1..Len(a) :
                          a[j] = "NUL" /\ \A k \in 1..(j - 1) : a[k] # "NUL") - 1)
Terminated(a) == \E j \in 1..Len(a) : a[j] = "NUL"

\* the front of a string that a char array of a struct has room for
Fitting(str) == SubSeq(str, 1, Min(Len(str), FieldLen - 1))

\* an element of results_out tells the unit dev of the scan
Tells(fn, entry, dev) ==
    /\ Terminated(entry.serial) /\ CString(entry.serial) = Fitting(dev.serial)
    /\ fn = "SerialDiscovery" => entry.id = dev.id
    /\ fn = "MulticastDiscovery" =>
           Terminated(entry.ip) /\ CString(entry.ip) = Fitting(dev.ip)

\* a discovery wrapper was called with its pointers set and a capacity, and
\* the scan has returned its list
Scanned ==
    /\ ufn \in DiscoveryWrappers
    /\ uarg.arg /\ uarg.out /\ uarg.cnt /\ uarg.count > 0
    /\ uarg.res.code = "Success"

\* C27: when the scan finds more units than the capacity N, the wrapper
\* returns BufferTooSmall and the N elements of the caller's array tell the
\* first N units of the scan, in the order of the scan.
C27_FirstN ==
    (Scanned /\ Len(uarg.res.devs) > uarg.count) =>
        /\ uout.ret = "BufferTooSmall"
        /\ Len(uout.results) = uarg.count
        /\ \A i \in 1..uarg.count : Tells(ufn, uout.results[i], uarg.res.devs[i])

\* three units have answered in the order 3, 1, 2 and the array has room
\* for two
C27_Witness ==
    /\ Scanned /\ ufn = "MulticastDiscovery" /\ uarg.count = 2
    /\ uarg.res.devs = <<Unit(3), Unit(1), Unit(2)>>
    /\ uout.ret = "BufferTooSmall"

\* C28: when a discovery wrapper returns success or BufferTooSmall, *count
\* is the number of units the scan has found.
C28_AsStated ==
    (ufn \in DiscoveryWrappers /\ uout.ret \in {"Success", "BufferTooSmall"}) =>
        uout.count = Len(uarg.res.devs)

\* *count is the number of elements written: the number of units found, or
\* the capacity when that is less
C28_CountWritten ==
    (ufn \in DiscoveryWrappers /\ uout.ret \in {"Success", "BufferTooSmall"}) =>
        /\ uout.count = Min(uarg.count, Len(uarg.res.devs))
        /\ uout.ret = "Success" <=> Len(uarg.res.devs) <= uarg.count

\* C29: a wrapper that returns a string leaves, on success, a null
\* character within each char array it has written, after the string (the
\* front of it that the char array of a struct has room for), and on every
\* failure, BufferTooSmall included, the caller's char arrays as they were.
C29_Terminated ==
    ufn \in StringWrappers =>
        /\ uout.ret = "Success" =>
              \A j \in 1..Len(uout.mem) :
                  /\ Len(uout.mem[j]) = Len(uarg.mem[j])
                  /\ Terminated(uout.mem[j])
                  /\ CString(uout.mem[j]) =
                        (IF ufn \in {"GetDeviceInfo", "GetIPAddress"}
                         THEN Fitting(uarg.res.strs[j]) ELSE uarg.res.strs[j])
        /\ uout.ret # "Success" => uout.mem = uarg.mem

\* a message of two characters did not fit into a buffer of two
C29_Witness ==
    /\ ufn = "GetNextError" /\ uarg.len = 2 /\ uarg.res.code = "Success"
    /\ uarg.res.strs = <<<<"a", "b">>>>
    /\ uout.ret = "BufferTooSmall"

---------------------------------------------------------------------------
(* Claims about the queries of one thread *)

\* C30: the line a query returns with success is the reply to the command
\* that this call has written, the last command written: never the reply to
\* the command of an earlier query.
C30_AsStated ==
    (tpc[Caller] = "done" /\ tgot[Caller].code = "Success") =>
        tgot[Caller].seq = written

\* the replies are returned in the order of the commands, none twice: the
\* j-th line returned is the reply to the j-th command written
C30_OldestReply ==
    /\ (tpc[Caller] = "done" /\ tgot[Caller].code = "Success") =>
           tgot[Caller].seq = taken
    /\ \A j \in 1..Len(replies) : replies[j].seq = taken + j
    /\ \A j \in 1..Len(net) : net[j].seq = taken + Len(replies) + j
---------------------------------------------------------------------------
(* Claims about the C functions that open a connection *)

\* the last call is an Open function given a valid handle
Opened == InCall /\ last.shape = "open" /\ last.arg.handle

\* the driver the Open function of the last call makes
KindOpened == (CHOOSE w \in OpenWrappers : w.fn = last.fn).kind

\* C34 as stated: each Open function called on a valid handle first detaches
\* the client's driver and attaches the driver it has made only if opening it
\* succeeded: after a failed call the client has no driver, after a
\* successful one it has exactly the new driver.
C34_AsStated ==
    Opened =>
        IF last.ret = "Success"
        THEN driver_ = "drv" /\ kind = KindOpened
        ELSE driver_ = "none"

\* C34 amended: the same for a call whose address or port string is not
\* null; a call given a null string or a null handle returns InvalidArgument
\* and leaves the client's driver as it was; a call made with no driver
\* attached returns InvalidDriverHandle and reaches no transport.
C34_DetachesFirst ==
    /\ (Opened /\ ~last.arg.null) =>
           IF last.ret = "Success"
           THEN driver_ = "drv" /\ kind = KindOpened
           ELSE driver_ = "none"
    /\ (InCall /\ last.shape = "open" /\ (last.arg.null \/ ~last.arg.handle)) =>
           (last.ret = "InvalidArgument" /\ driver_ = last.arg.before)
    /\ (InCall /\ last.shape # "open" /\ driver_ = "none") =>
           (last.ret = "InvalidDriverHandle" /\ last.io = <<>>)

\* an Open function that failed on a client that had a driver
C34_Witness ==
    /\ Opened /\ ~last.arg.null
    /\ last.fn = "AbsScpiClient_OpenUdp"
    /\ last.arg.before = "drv"
    /\ last.ret = "FailedToBindSocket"
    /\ driver_ = "none"

===========================================================================
